---------------------------- MODULE Spec2Model ----------------------------
(***************************************************************************)
(* Bet settlement of the sportsbook: the in-memory store (MemStorage), the *)
(* market outcome evaluator nested in resolveBetsForMatch, its copy in the *)
(* client utilities, and the Express routes that drive them.               *)
(*                                                                         *)
(* Execution model.  The server is one Node.js process.  Every route       *)
(* handler and every MemStorage method is an async function whose awaits   *)
(* are all on promises of other async functions of the store, which never  *)
(* wait for I/O.  A handler therefore runs as one macrotask followed by a  *)
(* chain of promise jobs, and the promise-job queue is drained before the  *)
(* next request is dispatched.  The model keeps that queue (queue, FIFO)   *)
(* and has one action per synchronous stretch of code between two awaits.  *)
(* An await of a promise that is already settled appends the continuation  *)
(* to the queue; an await of a pending promise is resumed by the job that  *)
(* settles the promise (the "ret" field of a job names the awaiting        *)
(* continuation).  A call of an async function runs its body up to its     *)
(* first await inside the caller's stretch: getUser, getMatch and          *)
(* getMarket read the map at the call, not at the resumption.  Jobs are    *)
(* ordered as ECMAScript orders them: an await of a native promise costs   *)
(* one job, and a return from an async function settles its promise in     *)
(* the job that executes the return.                                       *)
(*                                                                         *)
(* Amounts are integers (the store keeps JavaScript numbers).              *)
(***************************************************************************)
EXTENDS Integers, Sequences, FiniteSets, TLC

(***************************************************************************)
(* Bounds                                                                  *)
(***************************************************************************)
\* goals per side enumerated for the evaluator on its own
MaxGoals == 3
\* requests served in one behaviour
MaxRequests == 3
\* bets placed in one behaviour
MaxBets == 2

\* null of a nullable integer column (no score is negative)
Null == -1

(***************************************************************************)
(* Market outcome evaluator                                                *)
(***************************************************************************)
\* the market types that have a case in the evaluator's switch
RuledTypes ==
  {"1", "X", "2", "OVER_1_5", "UNDER_1_5", "OVER_2_5", "UNDER_2_5",
   "OVER_3_5", "UNDER_3_5", "BTTS_YES", "BTTS_NO", "DNB_1", "DNB_2",
   "DC_1X", "DC_12", "DC_X2", "HT_1", "HT_X", "HT_2", "HT_OVER_0_5",
   "HT_UNDER_0_5", "HT_OVER_1_5", "HT_UNDER_1_5", "HT_BTTS_YES",
   "HT_BTTS_NO", "HANDICAP_1_MINUS_1", "HANDICAP_1_MINUS_2",
   "HANDICAP_2_MINUS_1", "HANDICAP_2_MINUS_2", "WIN_BOTH_HALVES_1",
   "WIN_BOTH_HALVES_2", "WIN_EITHER_HALF_1", "WIN_EITHER_HALF_2"}

\* the declared type MarketType: the ruled tags plus two tags without a rule
MarketType == RuledTypes \cup {"CORRECT_SCORE", "CUSTOM"}

\* a tag outside the declared type; the type column is free text
UndeclaredTypes == {"FOOBAR"}

\* x > k + 0.5 and x < k + 0.5 on integers, as the code compares a sum of
\* integers with 1.5, 2.5, ...
OverHalf(x, k) == 2 * x > 2 * k + 1
UnderHalf(x, k) == 2 * x < 2 * k + 1

\* mutation of isBetWinner: the double-chance and handicap comparisons are
\* strict/non-strict the wrong way round, and the second half is not
\* subtracted
isBetWinner_mut(marketType, homeScore, awayScore, htHomeScore, htAwayScore) ==
  LET totalGoals == homeScore + awayScore
      htTotalGoals == htHomeScore + htAwayScore
  IN CASE marketType = "1" -> homeScore > awayScore
       [] marketType = "X" -> homeScore = awayScore
       [] marketType = "2" -> awayScore > homeScore
       [] marketType = "OVER_1_5" -> OverHalf(totalGoals, 1)
       [] marketType = "UNDER_1_5" -> UnderHalf(totalGoals, 1)
       [] marketType = "OVER_2_5" -> OverHalf(totalGoals, 2)
       [] marketType = "UNDER_2_5" -> UnderHalf(totalGoals, 2)
       [] marketType = "OVER_3_5" -> OverHalf(totalGoals, 3)
       [] marketType = "UNDER_3_5" -> UnderHalf(totalGoals, 3)
       [] marketType = "BTTS_YES" -> homeScore > 0 /\ awayScore > 0
       [] marketType = "BTTS_NO" -> homeScore = 0 \/ awayScore = 0
       [] marketType = "DNB_1" -> homeScore > awayScore
       [] marketType = "DNB_2" -> awayScore > homeScore
       [] marketType = "DC_1X" -> homeScore > awayScore
       [] marketType = "DC_12" -> homeScore # awayScore
       [] marketType = "DC_X2" -> awayScore >= homeScore
       [] marketType = "HT_1" -> htHomeScore > htAwayScore
       [] marketType = "HT_X" -> htHomeScore = htAwayScore
       [] marketType = "HT_2" -> htAwayScore > htHomeScore
       [] marketType = "HT_OVER_0_5" -> OverHalf(htTotalGoals, 0)
       [] marketType = "HT_UNDER_0_5" -> UnderHalf(htTotalGoals, 0)
       [] marketType = "HT_OVER_1_5" -> OverHalf(htTotalGoals, 1)
       [] marketType = "HT_UNDER_1_5" -> UnderHalf(htTotalGoals, 1)
       [] marketType = "HT_BTTS_YES" -> htHomeScore > 0 /\ htAwayScore > 0
       [] marketType = "HT_BTTS_NO" -> htHomeScore = 0 \/ htAwayScore = 0
       [] marketType = "HANDICAP_1_MINUS_1" -> (homeScore - 1) >= awayScore
       [] marketType = "HANDICAP_1_MINUS_2" -> (homeScore - 2) > awayScore
       [] marketType = "HANDICAP_2_MINUS_1" -> homeScore < (awayScore - 1)
       [] marketType = "HANDICAP_2_MINUS_2" -> homeScore < (awayScore - 2)
       [] marketType = "WIN_BOTH_HALVES_1" ->
            htHomeScore > htAwayScore /\ homeScore > awayScore
       [] marketType = "WIN_BOTH_HALVES_2" ->
            htAwayScore > htHomeScore /\ awayScore > homeScore
       [] marketType = "WIN_EITHER_HALF_1" ->
            htHomeScore > htAwayScore \/ homeScore > awayScore
       [] marketType = "WIN_EITHER_HALF_2" ->
            htAwayScore > htHomeScore \/ awayScore > homeScore
       [] OTHER -> FALSE

\* isBetWinner nested in MemStorage.resolveBetsForMatch
isBetWinner(marketType, homeScore, awayScore, htHomeScore, htAwayScore) ==
  LET totalGoals == homeScore + awayScore
      htTotalGoals == htHomeScore + htAwayScore
      secondHalfHome == homeScore - htHomeScore
      secondHalfAway == awayScore - htAwayScore
  IN CASE marketType = "1" -> homeScore > awayScore
       [] marketType = "X" -> homeScore = awayScore
       [] marketType = "2" -> awayScore > homeScore
       [] marketType = "OVER_1_5" -> OverHalf(totalGoals, 1)
       [] marketType = "UNDER_1_5" -> UnderHalf(totalGoals, 1)
       [] marketType = "OVER_2_5" -> OverHalf(totalGoals, 2)
       [] marketType = "UNDER_2_5" -> UnderHalf(totalGoals, 2)
       [] marketType = "OVER_3_5" -> OverHalf(totalGoals, 3)
       [] marketType = "UNDER_3_5" -> UnderHalf(totalGoals, 3)
       [] marketType = "BTTS_YES" -> homeScore > 0 /\ awayScore > 0
       [] marketType = "BTTS_NO" -> homeScore = 0 \/ awayScore = 0
       [] marketType = "DNB_1" -> homeScore > awayScore
       [] marketType = "DNB_2" -> awayScore > homeScore
       [] marketType = "DC_1X" -> homeScore >= awayScore
       [] marketType = "DC_12" -> homeScore # awayScore
       [] marketType = "DC_X2" -> awayScore >= homeScore
       [] marketType = "HT_1" -> htHomeScore > htAwayScore
       [] marketType = "HT_X" -> htHomeScore = htAwayScore
       [] marketType = "HT_2" -> htAwayScore > htHomeScore
       [] marketType = "HT_OVER_0_5" -> OverHalf(htTotalGoals, 0)
       [] marketType = "HT_UNDER_0_5" -> UnderHalf(htTotalGoals, 0)
       [] marketType = "HT_OVER_1_5" -> OverHalf(htTotalGoals, 1)
       [] marketType = "HT_UNDER_1_5" -> UnderHalf(htTotalGoals, 1)
       [] marketType = "HT_BTTS_YES" -> htHomeScore > 0 /\ htAwayScore > 0
       [] marketType = "HT_BTTS_NO" -> htHomeScore = 0 \/ htAwayScore = 0
       [] marketType = "HANDICAP_1_MINUS_1" -> (homeScore - 1) > awayScore
       [] marketType = "HANDICAP_1_MINUS_2" -> (homeScore - 2) > awayScore
       [] marketType = "HANDICAP_2_MINUS_1" -> homeScore < (awayScore - 1)
       [] marketType = "HANDICAP_2_MINUS_2" -> homeScore < (awayScore - 2)
       [] marketType = "WIN_BOTH_HALVES_1" ->
            htHomeScore > htAwayScore /\ secondHalfHome > secondHalfAway
       [] marketType = "WIN_BOTH_HALVES_2" ->
            htAwayScore > htHomeScore /\ secondHalfAway > secondHalfHome
       [] marketType = "WIN_EITHER_HALF_1" ->
            htHomeScore > htAwayScore \/ secondHalfHome > secondHalfAway
       [] marketType = "WIN_EITHER_HALF_2" ->
            htAwayScore > htHomeScore \/ secondHalfAway > secondHalfHome
       [] OTHER -> FALSE

\* mutation of isBetPush: a draw pushes the 1/X/2 and double-chance
\* markets too, a handicap pushes on its line, and an unruled tag pushes
isBetPush_mut(marketType, homeScore, awayScore) ==
  CASE marketType \in {"DNB_1", "DNB_2", "1", "2", "DC_12"} ->
         homeScore = awayScore
    [] marketType = "HANDICAP_1_MINUS_1" -> homeScore - 1 = awayScore
    [] marketType \in RuledTypes -> FALSE
    [] OTHER -> TRUE

\* isBetPush nested in MemStorage.resolveBetsForMatch
isBetPush(marketType, homeScore, awayScore) ==
  CASE marketType = "DNB_1" -> homeScore = awayScore
    [] marketType = "DNB_2" -> homeScore = awayScore
    [] OTHER -> FALSE

\* mutation of the client's isBetWinner: HT_X also wins when the home side
\* leads at half time
isBetWinnerClient_mut(marketType, homeScore, awayScore, htHomeScore, htAwayScore) ==
  IF marketType = "HT_X" THEN htHomeScore >= htAwayScore
  ELSE isBetWinner(marketType, homeScore, awayScore, htHomeScore, htAwayScore)

\* isBetWinner exported by the client utilities
isBetWinnerClient(marketType, homeScore, awayScore, htHomeScore, htAwayScore) ==
  LET totalGoals == homeScore + awayScore
      htTotalGoals == htHomeScore + htAwayScore
  IN CASE marketType = "1" -> homeScore > awayScore
       [] marketType = "X" -> homeScore = awayScore
       [] marketType = "2" -> awayScore > homeScore
       [] marketType = "OVER_1_5" -> OverHalf(totalGoals, 1)
       [] marketType = "UNDER_1_5" -> UnderHalf(totalGoals, 1)
       [] marketType = "OVER_2_5" -> OverHalf(totalGoals, 2)
       [] marketType = "UNDER_2_5" -> UnderHalf(totalGoals, 2)
       [] marketType = "OVER_3_5" -> OverHalf(totalGoals, 3)
       [] marketType = "UNDER_3_5" -> UnderHalf(totalGoals, 3)
       [] marketType = "BTTS_YES" -> homeScore > 0 /\ awayScore > 0
       [] marketType = "BTTS_NO" -> homeScore = 0 \/ awayScore = 0
       [] marketType = "DNB_1" -> homeScore > awayScore
       [] marketType = "DNB_2" -> awayScore > homeScore
       [] marketType = "DC_1X" -> homeScore >= awayScore
       [] marketType = "DC_12" -> homeScore # awayScore
       [] marketType = "DC_X2" -> awayScore >= homeScore
       [] marketType = "HT_1" -> htHomeScore > htAwayScore
       [] marketType = "HT_X" -> htHomeScore = htAwayScore
       [] marketType = "HT_2" -> htAwayScore > htHomeScore
       [] marketType = "HT_OVER_0_5" -> OverHalf(htTotalGoals, 0)
       [] marketType = "HT_UNDER_0_5" -> UnderHalf(htTotalGoals, 0)
       [] marketType = "HT_OVER_1_5" -> OverHalf(htTotalGoals, 1)
       [] marketType = "HT_UNDER_1_5" -> UnderHalf(htTotalGoals, 1)
       [] marketType = "HT_BTTS_YES" -> htHomeScore > 0 /\ htAwayScore > 0
       [] marketType = "HT_BTTS_NO" -> htHomeScore = 0 \/ htAwayScore = 0
       [] marketType = "HANDICAP_1_MINUS_1" -> (homeScore - 1) > awayScore
       [] marketType = "HANDICAP_1_MINUS_2" -> (homeScore - 2) > awayScore
       [] marketType = "HANDICAP_2_MINUS_1" -> homeScore < (awayScore - 1)
       [] marketType = "HANDICAP_2_MINUS_2" -> homeScore < (awayScore - 2)
       [] marketType = "WIN_BOTH_HALVES_1" ->
            htHomeScore > htAwayScore
            /\ (homeScore - htHomeScore) > (awayScore - htAwayScore)
       [] marketType = "WIN_BOTH_HALVES_2" ->
            htAwayScore > htHomeScore
            /\ (awayScore - htAwayScore) > (homeScore - htHomeScore)
       [] marketType = "WIN_EITHER_HALF_1" ->
            htHomeScore > htAwayScore
            \/ (homeScore - htHomeScore) > (awayScore - htAwayScore)
       [] marketType = "WIN_EITHER_HALF_2" ->
            htAwayScore > htHomeScore
            \/ (awayScore - htAwayScore) > (homeScore - htHomeScore)
       [] OTHER -> FALSE

\* isBetPush exported by the client utilities
isBetPushClient(marketType, homeScore, awayScore) ==
  CASE marketType = "DNB_1" -> homeScore = awayScore
    [] marketType = "DNB_2" -> homeScore = awayScore
    [] OTHER -> FALSE

(***************************************************************************)
(* State                                                                   *)
(***************************************************************************)
VARIABLES
  users,          \* MemStorage.users: id -> [balance]
  matches,        \* MemStorage.matches: id -> match record
  markets,        \* MemStorage.markets: id -> [matchId, type, odds, isLocked]
  bets,           \* MemStorage.bets: id -> bet record
  betSelections,  \* MemStorage.betSelections in insertion order
  currentBetID,   \* MemStorage.currentBetID
  queue,          \* promise jobs not yet run, first to run at the head
  req,            \* the request being served: its body and the handler's locals
  nreq,           \* requests dispatched so far
  pre,            \* history: balances and bets when req was dispatched, and the
                  \* amount of a top-up accepted while req was being served
  lastPass,       \* history: the latest run of resolveBetsForMatch
  passCalls,      \* history: bet id -> resolveBet calls made by settlement passes
  creditWrites,   \* history: bet id -> balance writes made by resolveBet for it
  ev              \* evaluator on its own: inputs and results

vars == <<users, matches, markets, bets, betSelections, currentBetID, queue,
          req, nreq, pre, lastPass, passCalls, creditWrites, ev>>

storeVars == <<users, matches, markets, bets, betSelections, currentBetID>>
histVars == <<pre, lastPass, passCalls, creditWrites>>

(***************************************************************************)
(* The store after construction and after the administrator has created    *)
(* the matches and markets below (POST /api/matches with markets): two     *)
(* UPCOMING matches without scores, no bet, the default user.              *)
(***************************************************************************)
\* balance of the default user created by initializeDefaultData
DefaultBalance == 10000
\* the only user id the routes use
DemoUser == 1

MatchIds == {1, 2}

InitMatch ==
  [status |-> "UPCOMING", homeScore |-> Null, awayScore |-> Null,
   htHomeScore |-> Null, htAwayScore |-> Null]

\* markets offered: five on match 1 (one of them with a tag that has no
\* rule), two on match 2, of which the administrator has locked one
\* (PATCH /api/markets/7/toggle-lock) before the requests below
InitMarkets ==
  (1 :> [matchId |-> 1, type |-> "1", odds |-> 2, isLocked |-> FALSE]) @@
  (2 :> [matchId |-> 1, type |-> "DNB_1", odds |-> 2, isLocked |-> FALSE]) @@
  (3 :> [matchId |-> 1, type |-> "CUSTOM", odds |-> 3, isLocked |-> FALSE]) @@
  (4 :> [matchId |-> 2, type |-> "X", odds |-> 2, isLocked |-> FALSE]) @@
  (5 :> [matchId |-> 1, type |-> "OVER_1_5", odds |-> 3,
         isLocked |-> FALSE]) @@
  (6 :> [matchId |-> 1, type |-> "UNDER_1_5", odds |-> 2,
         isLocked |-> FALSE]) @@
  (7 :> [matchId |-> 2, type |-> "2", odds |-> 2, isLocked |-> TRUE])

\* no request
NoReq ==
  [kind |-> "none", id |-> 0, status |-> "", homeScore |-> 0, awayScore |-> 0,
   htHomeScore |-> 0, htAwayScore |-> 0, selections |-> <<>>, stake |-> 0,
   totalOdds |-> 0, potentialWin |-> 0, amount |-> 0, snapMarkets |-> {}, found |-> FALSE, snap |-> InitMatch, balance |-> 0,
   i |-> 0, marketFound |-> FALSE, response |-> 0]

NoPass ==
  [req |-> 0, n |-> 0, matchId |-> 0, match |-> InitMatch, ran |-> FALSE,
   before |-> <<>>, calls |-> <<>>, credits |-> <<>>]

\* evaluator inputs and results
EvIdle ==
  [marketType |-> "", homeScore |-> 0, awayScore |-> 0, htHomeScore |-> 0,
   htAwayScore |-> 0, done |-> FALSE, win |-> FALSE, push |-> FALSE,
   clientWin |-> FALSE, clientPush |-> FALSE]

StoreInit ==
  /\ users = (DemoUser :> [balance |-> DefaultBalance])
  /\ matches = [m \in MatchIds |-> InitMatch]
  /\ markets = InitMarkets
  /\ bets = <<>>
  /\ betSelections = <<>>
  /\ currentBetID = 1
  /\ queue = <<>>
  /\ req = NoReq
  /\ nreq = 0
  /\ pre = [users |-> users, bets |-> bets, selections |-> betSelections,
            topup |-> 0]
  /\ lastPass = NoPass
  /\ passCalls = <<>>
  /\ creditWrites = <<>>

Init ==
  /\ StoreInit
  /\ ev = EvIdle

(***************************************************************************)
(* The evaluator on its own: every market tag and every score tuple within *)
(* MaxGoals, then one application of the server's and of the client's      *)
(* functions.                                                              *)
(***************************************************************************)
EvalTypes == MarketType \cup UndeclaredTypes
Goals == 0..MaxGoals

EvalInit ==
  /\ StoreInit
  /\ \E t \in EvalTypes, h \in Goals, a \in Goals, hh \in Goals, ha \in Goals :
       ev = [EvIdle EXCEPT !.marketType = t, !.homeScore = h, !.awayScore = a,
                           !.htHomeScore = hh, !.htAwayScore = ha]

Evaluate ==
  /\ ~ev.done
  /\ ev' = [ev EXCEPT
       !.done = TRUE,
       !.win = isBetWinner(ev.marketType, ev.homeScore, ev.awayScore,
                           ev.htHomeScore, ev.htAwayScore),
       !.push = isBetPush(ev.marketType, ev.homeScore, ev.awayScore),
       !.clientWin = isBetWinnerClient(ev.marketType, ev.homeScore,
                                       ev.awayScore, ev.htHomeScore,
                                       ev.htAwayScore),
       !.clientPush = isBetPushClient(ev.marketType, ev.homeScore,
                                      ev.awayScore)]
  /\ UNCHANGED <<storeVars, queue, req, nreq, histVars>>

EvalNext == Evaluate

EvalSpec == EvalInit /\ [][EvalNext]_vars

(***************************************************************************)
(* Promise jobs                                                            *)
(***************************************************************************)
\* a continuation waiting in the promise-job queue, with the locals of the
\* suspended call: then = what resumes when updateUserBalance returns,
\* ret = the route continuation awaiting the enclosing resolveBet
Job(k, betId, status, userId, found, balance, then, ret) ==
  [k |-> k, betId |-> betId, status |-> status, userId |-> userId,
   found |-> found, balance |-> balance, then |-> then, ret |-> ret]

\* a continuation of the route handler; its locals are in req
RouteJob(k) == Job(k, 0, "", 0, FALSE, 0, "none", "none")

\* the jobs queued when an async call made by a route returns
Resume(ret) == IF ret = "none" THEN <<>> ELSE <<RouteJob(ret)>>

Running(k) == queue # <<>> /\ Head(queue).k = k

Idle == queue = <<>>

(***************************************************************************)
(* MemStorage.resolveBet, up to its first await                            *)
(***************************************************************************)
\* mutation of resolveBet: PUSH is paid like WON
resolveBet_mut(bs, us, betId, status, ret) ==
  IF status \in {"WON", "PUSH"} /\ betId \in DOMAIN bs
  THEN LET bet == bs[betId]
           found == bet.userId \in DOMAIN us
           credited == IF found THEN us[bet.userId].balance + bet.potentialWin
                       ELSE 0
       IN [bets |-> bs,
           jobs |-> <<Job("RB1", betId, status, bet.userId, found, credited,
                          "none", ret)>>]
  ELSE [bets |-> IF betId \in DOMAIN bs
                 THEN [bs EXCEPT ![betId].status = status] ELSE bs,
        jobs |-> Resume(ret)]

\* resolveBet(betId, status) called with the maps bs and us: for WON and an
\* existing bet it reads the owner and suspends on getUser; otherwise it
\* runs to its end and stores the status at once
resolveBet(bs, us, betId, status, ret) ==
  IF status = "WON" /\ betId \in DOMAIN bs
  THEN LET bet == bs[betId]
           found == bet.userId \in DOMAIN us
           credited == IF found THEN us[bet.userId].balance + bet.potentialWin
                       ELSE 0
       IN [bets |-> bs,
           jobs |-> <<Job("RB1", betId, status, bet.userId, found, credited,
                          "none", ret)>>]
  ELSE [bets |-> IF betId \in DOMAIN bs
                 THEN [bs EXCEPT ![betId].status = status] ELSE bs,
        jobs |-> Resume(ret)]

(***************************************************************************)
(* MemStorage.resolveBetsForMatch                                          *)
(***************************************************************************)
\* mutation of OrZero: a null score counts as one goal
OrZero_mut(x) == IF x = Null THEN 1 ELSE x

\* x || 0 on a nullable score
OrZero(x) == IF x = Null THEN 0 ELSE x

\* the selections of a bet in the iteration order of the betSelections map
SelectionsOf(sels, betId) == SelectSeq(sels, LAMBDA s : s.betId = betId)

\* mutation of ScanSelections: a pushing selection ends the loop
RECURSIVE ScanSelections_mutBreak(_, _, _, _, _)
ScanSelections_mutBreak(sels, mkts, matchId, match, flags) ==
  IF sels = <<>> THEN flags
  ELSE LET selection == Head(sels) IN
    IF selection.marketId \notin DOMAIN mkts
    THEN ScanSelections_mutBreak(Tail(sels), mkts, matchId, match, flags)
    ELSE LET market == mkts[selection.marketId] IN
      IF market.matchId = matchId
      THEN LET isWinner == isBetWinner(market.type, match.homeScore,
                                       match.awayScore,
                                       OrZero(match.htHomeScore),
                                       OrZero(match.htAwayScore))
               isPush == isBetPush(market.type, match.homeScore,
                                   match.awayScore)
           IN IF isPush
              THEN [flags EXCEPT !.hasAnyPush = TRUE]
              ELSE IF ~isWinner
              THEN [flags EXCEPT !.allSelectionsWon = FALSE]
              ELSE ScanSelections_mutBreak(Tail(sels), mkts, matchId, match,
                                           flags)
      ELSE ScanSelections_mutBreak(Tail(sels), mkts, matchId, match, flags)

\* mutation of ScanSelections: a selection whose market has no record makes
\* the bet lose
RECURSIVE ScanSelections_mut(_, _, _, _, _)
ScanSelections_mut(sels, mkts, matchId, match, flags) ==
  IF sels = <<>> THEN flags
  ELSE LET selection == Head(sels) IN
    IF selection.marketId \notin DOMAIN mkts
    THEN [flags EXCEPT !.allSelectionsWon = FALSE]
    ELSE LET market == mkts[selection.marketId] IN
      IF market.matchId = matchId
      THEN LET isWinner == isBetWinner(market.type, match.homeScore,
                                       match.awayScore,
                                       OrZero(match.htHomeScore),
                                       OrZero(match.htAwayScore))
               isPush == isBetPush(market.type, match.homeScore,
                                   match.awayScore)
           IN IF isPush
              THEN ScanSelections_mut(Tail(sels), mkts, matchId, match,
                                      [flags EXCEPT !.hasAnyPush = TRUE])
              ELSE IF ~isWinner
              THEN [flags EXCEPT !.allSelectionsWon = FALSE]
              ELSE ScanSelections_mut(Tail(sels), mkts, matchId, match, flags)
      ELSE ScanSelections_mut(Tail(sels), mkts, matchId, match, flags)

\* the inner loop over the selections of one bet, with its continue and break
RECURSIVE ScanSelections(_, _, _, _, _)
ScanSelections(sels, mkts, matchId, match, flags) ==
  IF sels = <<>> THEN flags
  ELSE LET selection == Head(sels) IN
    IF selection.marketId \notin DOMAIN mkts
    THEN ScanSelections(Tail(sels), mkts, matchId, match, flags)
    ELSE LET market == mkts[selection.marketId] IN
      IF market.matchId = matchId
      THEN LET isWinner == isBetWinner(market.type, match.homeScore,
                                       match.awayScore,
                                       OrZero(match.htHomeScore),
                                       OrZero(match.htAwayScore))
               isPush == isBetPush(market.type, match.homeScore,
                                   match.awayScore)
           IN IF isPush
              THEN ScanSelections(Tail(sels), mkts, matchId, match,
                                  [flags EXCEPT !.hasAnyPush = TRUE])
              ELSE IF ~isWinner
              THEN [flags EXCEPT !.allSelectionsWon = FALSE]
              ELSE ScanSelections(Tail(sels), mkts, matchId, match, flags)
      ELSE ScanSelections(Tail(sels), mkts, matchId, match, flags)

\* mutation of BetOutcome: WON and PUSH exchanged
BetOutcome_mut(sels, mkts, matchId, match, betId) ==
  LET flags == ScanSelections(SelectionsOf(sels, betId), mkts, matchId, match,
                 [allSelectionsWon |-> TRUE, hasAnyPush |-> FALSE])
  IN IF flags.allSelectionsWon
     THEN IF flags.hasAnyPush THEN "WON" ELSE "PUSH"
     ELSE "LOST"

\* mutation of BetOutcome: there is no PUSH, a bet with a pushing leg is LOST
BetOutcome_mutNoPush(sels, mkts, matchId, match, betId) ==
  LET flags == ScanSelections(SelectionsOf(sels, betId), mkts, matchId, match,
                 [allSelectionsWon |-> TRUE, hasAnyPush |-> FALSE])
  IN IF flags.allSelectionsWon /\ ~flags.hasAnyPush THEN "WON" ELSE "LOST"

\* mutation of BetOutcome: a pushing leg decides before a losing one
BetOutcome_mutPushFirst(sels, mkts, matchId, match, betId) ==
  LET flags == ScanSelections(SelectionsOf(sels, betId), mkts, matchId, match,
                 [allSelectionsWon |-> TRUE, hasAnyPush |-> FALSE])
  IN IF flags.hasAnyPush THEN "PUSH"
     ELSE IF flags.allSelectionsWon THEN "WON" ELSE "LOST"

\* the status the pass hands to resolveBet for one bet
BetOutcome(sels, mkts, matchId, match, betId) ==
  LET flags == ScanSelections(SelectionsOf(sels, betId), mkts, matchId, match,
                 [allSelectionsWon |-> TRUE, hasAnyPush |-> FALSE])
  IN IF flags.allSelectionsWon
     THEN IF flags.hasAnyPush THEN "PUSH" ELSE "WON"
     ELSE "LOST"

\* mutation of IsPendingBet: the pass takes every bet
IsPendingBet_mut(bet) == TRUE

\* the filter of the outer loop
IsPendingBet(bet) == bet.status = "PENDING"

\* the ids of a map in insertion order (ids are handed out ascending)
RECURSIVE IdsBelow(_, _)
IdsBelow(m, n) ==
  IF n = 0 THEN <<>>
  ELSE IF n \in DOMAIN m THEN Append(IdsBelow(m, n - 1), n)
  ELSE IdsBelow(m, n - 1)

\* the outer loop: snap is Array.from(this.bets.values()) taken before the
\* loop, acc the bets map and the jobs queued so far; resolveBet is called
\* without await
RECURSIVE PassLoop(_, _, _, _, _, _, _, _)
PassLoop(ids, snap, us, sels, mkts, matchId, match, acc) ==
  IF ids = <<>> THEN acc
  ELSE LET betId == Head(ids)
           rest == Tail(ids)
       IN IF IsPendingBet(snap[betId])
          THEN LET status == BetOutcome(sels, mkts, matchId, match, betId)
                   r == resolveBet(acc.bets, us, betId, status, "none")
               IN PassLoop(rest, snap, us, sels, mkts, matchId, match,
                    [bets |-> r.bets, jobs |-> acc.jobs \o r.jobs,
                     calls |-> [acc.calls EXCEPT ![betId] = status]])
          ELSE PassLoop(rest, snap, us, sels, mkts, matchId, match, acc)

\* mutation of PassRuns: the pass runs for every match that exists
PassRuns_mut(ms, matchId) == matchId \in DOMAIN ms

\* the early return of resolveBetsForMatch; ms is the matches map
PassRuns(ms, matchId) ==
  /\ matchId \in DOMAIN ms
  /\ ms[matchId].status = "FINISHED"
  /\ ms[matchId].homeScore # Null
  /\ ms[matchId].awayScore # Null

\* resolveBetsForMatch(matchId) on the maps given: the bets map after the
\* loop, the jobs of the suspended resolveBet calls in call order, and for
\* the history the status of every bet before the loop and the status
\* handed to resolveBet ("none" when resolveBet was not called)
resolveBetsForMatch(ms, bs, us, sels, mkts, matchId) ==
  LET before == [b \in DOMAIN bs |-> bs[b].status]
      nocalls == [b \in DOMAIN bs |-> "none"]
      start == [bets |-> bs, jobs |-> <<>>, calls |-> nocalls]
      r == IF PassRuns(ms, matchId)
           THEN PassLoop(IdsBelow(bs, currentBetID - 1), bs, us, sels, mkts,
                         matchId, ms[matchId], start)
           ELSE start
  IN [bets |-> r.bets, jobs |-> r.jobs, calls |-> r.calls,
      before |-> before, ran |-> PassRuns(ms, matchId)]

\* history of a pass: the request it belongs to, its number within that
\* request, the match record it read, and the balance writes counted so far
PassRecord(r, ms, matchId) ==
  [req |-> nreq, n |-> IF lastPass.req = nreq THEN lastPass.n + 1 ELSE 1,
   matchId |-> matchId,
   match |-> IF matchId \in DOMAIN ms THEN ms[matchId] ELSE InitMatch,
   ran |-> r.ran, before |-> r.before, calls |-> r.calls,
   credits |-> creditWrites]

CountCalls(r) ==
  [b \in DOMAIN passCalls |->
     IF b \in DOMAIN r.calls /\ r.calls[b] # "none"
     THEN passCalls[b] + 1 ELSE passCalls[b]]

(***************************************************************************)
(* Requests                                                                *)
(***************************************************************************)
\* values of the request bodies
ScoreStatuses == {"", "FINISHED", "LIVE"}
\* full-time results: a draw, a home win, an away win
ScoreLines == {<<0, 0>>, <<1, 0>>, <<0, 1>>}
\* half-time values of the body (0 is what the client sends for an empty
\* field)
HalfTimeGoals == {0}
Stakes == {10}
\* the slip of the client for a single at odds 2: totalOdds 2 and
\* potentialWin 20 for the stake 10; the same numbers sent with a slip of two
\* legs are a body whose totals do not belong to its selections
TotalOddsInputs == {2}
PotentialWins == {20}
\* statuses sent to the resolve endpoints, which store any string
ResolveStatuses == {"WON", "LOST", "PUSH", "PENDING"}
PlacedStatuses == {"PENDING"}

\* bet slips: singles on markets 1, 2 and 3 of match 1, a single on match
\* 2, the home win with the draw-no-bet in both orders, an accumulator
\* across the matches, over 1.5 goals with the home win, under 1.5 goals
\* with the draw-no-bet, and a single on the locked market
SlipInputs ==
  {<<1>>, <<2>>, <<3>>, <<4>>, <<1, 2>>, <<2, 1>>, <<1, 4>>, <<5, 1>>,
   <<6, 2>>, <<7>>}

\* a request is dispatched when no promise job is left
CanDispatch == Idle /\ nreq < MaxRequests

Dispatch ==
  /\ nreq' = nreq + 1
  /\ pre' = [users |-> users, bets |-> bets, selections |-> betSelections,
             topup |-> 0]

\* values of the body of PATCH /api/matches/:id, which carries a status and
\* here no score
MatchStatuses == {"UPCOMING", "LIVE", "FINISHED"}

\* status || "FINISHED" of the score route
StatusArg(status) == IF status = "" THEN "FINISHED" ELSE status

\* an argument of updateMatchStatus that the caller left out
Undefined == -2

\* x !== undefined ? x : old
OrKeep(x, old) == IF x = Undefined THEN old ELSE x

\* the continuation of the route that awaits updateMatchStatus
AfterUpdate == IF req.kind = "score" THEN "SR1" ELSE "MR1"

\* htHomeScore ? parseInt(htHomeScore) : null
HalfTimeArg(x) == IF x = 0 \/ x = Undefined THEN Null ELSE x

(***************************************************************************)
(* PATCH /api/matches/:id/score                                            *)
(***************************************************************************)
\* the handler up to its await of updateMatchStatus, which itself runs up
\* to its await of getMatch
ScoreRequest(id, status, homeScore, awayScore, htHomeScore, htAwayScore) ==
  /\ CanDispatch
  /\ Dispatch
  /\ req' = [NoReq EXCEPT !.kind = "score", !.id = id, !.status = status,
               !.homeScore = homeScore, !.awayScore = awayScore,
               !.htHomeScore = htHomeScore, !.htAwayScore = htAwayScore,
               !.found = id \in DOMAIN matches,
               !.snap = IF id \in DOMAIN matches THEN matches[id]
                        ELSE InitMatch]
  /\ queue' = <<RouteJob("UMS1")>>
  /\ UNCHANGED <<storeVars, lastPass, passCalls, creditWrites, ev>>

\* mutation of SettlesOn: a match that was already FINISHED is not settled
\* again
SettlesOn_mut(status) == status = "FINISHED" /\ req.snap.status # "FINISHED"

\* the condition under which updateMatchStatus calls resolveBetsForMatch
SettlesOn(status) == status = "FINISHED"

\* updateMatchStatus after getMatch: the match is stored and, for FINISHED,
\* resolveBetsForMatch runs to its end before the await of its promise
UpdateMatchStatus_Store ==
  /\ Running("UMS1")
  /\ IF ~req.found
     THEN /\ queue' = Tail(queue) \o <<RouteJob(AfterUpdate)>>
          /\ UNCHANGED <<storeVars, lastPass, passCalls>>
     ELSE LET status == StatusArg(req.status)
              htHomeScore == IF req.kind = "score"
                             THEN HalfTimeArg(req.htHomeScore) ELSE Undefined
              htAwayScore == IF req.kind = "score"
                             THEN HalfTimeArg(req.htAwayScore) ELSE Undefined
              updatedMatch ==
                [req.snap EXCEPT
                   !.status = status,
                   !.homeScore = OrKeep(req.homeScore, req.snap.homeScore),
                   !.awayScore = OrKeep(req.awayScore, req.snap.awayScore),
                   !.htHomeScore = OrKeep(htHomeScore, req.snap.htHomeScore),
                   !.htAwayScore = OrKeep(htAwayScore, req.snap.htAwayScore)]
              ms == [matches EXCEPT ![req.id] = updatedMatch]
              r == resolveBetsForMatch(ms, bets, users, betSelections,
                                       markets, req.id)
          IN /\ matches' = ms
             /\ IF SettlesOn(status)
                THEN /\ bets' = r.bets
                     /\ queue' = Tail(queue) \o r.jobs \o <<RouteJob("UMS2")>>
                     /\ lastPass' = PassRecord(r, ms, req.id)
                     /\ passCalls' = CountCalls(r)
                ELSE /\ queue' = Tail(queue) \o <<RouteJob(AfterUpdate)>>
                     /\ UNCHANGED <<bets, lastPass, passCalls>>
             /\ UNCHANGED <<users, markets, betSelections, currentBetID>>
  /\ UNCHANGED <<req, nreq, pre, creditWrites, ev>>

\* updateMatchStatus after resolveBetsForMatch: it returns the match
UpdateMatchStatus_Return ==
  /\ Running("UMS2")
  /\ queue' = Tail(queue) \o <<RouteJob(AfterUpdate)>>
  /\ UNCHANGED <<storeVars, req, nreq, histVars, ev>>

\* the handler after updateMatchStatus: 404, or a second pass when the body
\* itself says FINISHED, or the response
ScoreRoute_AfterUpdate ==
  /\ Running("SR1")
  /\ IF ~req.found
     THEN /\ req' = [req EXCEPT !.response = 404]
          /\ queue' = Tail(queue)
          /\ UNCHANGED <<bets, lastPass, passCalls>>
     ELSE IF req.status = "FINISHED"
     THEN LET r == resolveBetsForMatch(matches, bets, users, betSelections,
                                       markets, req.id)
          IN /\ bets' = r.bets
             /\ queue' = Tail(queue) \o r.jobs \o <<RouteJob("SR2")>>
             /\ lastPass' = PassRecord(r, matches, req.id)
             /\ passCalls' = CountCalls(r)
             /\ UNCHANGED req
     ELSE /\ req' = [req EXCEPT !.response = 200]
          /\ queue' = Tail(queue)
          /\ UNCHANGED <<bets, lastPass, passCalls>>
  /\ UNCHANGED <<users, matches, markets, betSelections, currentBetID, nreq,
                 pre, creditWrites, ev>>

\* the handler after its own resolveBetsForMatch: the response
ScoreRoute_Respond ==
  /\ Running("SR2")
  /\ req' = [req EXCEPT !.response = 200]
  /\ queue' = Tail(queue)
  /\ UNCHANGED <<storeVars, nreq, histVars, ev>>

(***************************************************************************)
(* PATCH /api/matches/:id                                                  *)
(***************************************************************************)
\* the handler up to its await of updateMatchStatus, called without scores
MatchRequest(id, status) ==
  /\ CanDispatch
  /\ Dispatch
  /\ req' = [NoReq EXCEPT !.kind = "match", !.id = id, !.status = status,
               !.homeScore = Undefined, !.awayScore = Undefined,
               !.htHomeScore = Undefined, !.htAwayScore = Undefined,
               !.found = id \in DOMAIN matches,
               !.snap = IF id \in DOMAIN matches THEN matches[id]
                        ELSE InitMatch]
  /\ queue' = <<RouteJob("UMS1")>>
  /\ UNCHANGED <<storeVars, lastPass, passCalls, creditWrites, ev>>

\* the handler after updateMatchStatus: 404 or the response
MatchRoute_Respond ==
  /\ Running("MR1")
  /\ req' = [req EXCEPT !.response = IF req.found THEN 200 ELSE 404]
  /\ queue' = Tail(queue)
  /\ UNCHANGED <<storeVars, nreq, histVars, ev>>

(***************************************************************************)
(* MemStorage.resolveBet and MemStorage.updateUserBalance after their      *)
(* awaits                                                                  *)
(***************************************************************************)
\* mutation of AfterGetUser: with a user found, resolveBet never resumes
AfterGetUser_mut(bs, us, j) ==
  IF j.found
  THEN [bets |-> bs, jobs |-> <<>>]
  ELSE [bets |-> IF j.betId \in DOMAIN bs
                 THEN [bs EXCEPT ![j.betId].status = j.status] ELSE bs,
        jobs |-> Resume(j.ret)]

\* resolveBet resumed after getUser with the job j it left, on the maps bs
\* and us: with a user it calls updateUserBalance, which runs up to its own
\* await of getUser; without one it stores the status and returns
AfterGetUser(bs, us, j) ==
  IF j.found
  THEN [bets |-> bs,
        jobs |-> <<Job("UB1", j.betId, j.status, j.userId,
                       j.userId \in DOMAIN us, j.balance, "RB2", j.ret)>>]
  ELSE [bets |-> IF j.betId \in DOMAIN bs
                 THEN [bs EXCEPT ![j.betId].status = j.status] ELSE bs,
        jobs |-> Resume(j.ret)]

\* resolveBet after getUser
ResolveBet_AfterGetUser ==
  /\ Running("RB1")
  /\ LET r == AfterGetUser(bets, users, Head(queue))
     IN /\ bets' = r.bets
        /\ queue' = Tail(queue) \o r.jobs
  /\ UNCHANGED <<users, matches, markets, betSelections, currentBetID, req,
                 nreq, histVars, ev>>

\* updateUserBalance after getUser: the balance is stored and the caller
\* resumed
UpdateUserBalance_Store ==
  /\ Running("UB1")
  /\ LET j == Head(queue) IN
     /\ users' = IF j.found
                 THEN [users EXCEPT ![j.userId].balance = j.balance]
                 ELSE users
     /\ creditWrites' =
          IF j.found /\ j.then = "RB2" /\ j.betId \in DOMAIN creditWrites
          THEN [creditWrites EXCEPT ![j.betId] = @ + 1]
          ELSE creditWrites
     /\ queue' = Tail(queue) \o
          <<IF j.then = "RB2"
            THEN Job("RB2", j.betId, j.status, j.userId, j.found, j.balance,
                     "none", j.ret)
            ELSE RouteJob(j.then)>>
  /\ UNCHANGED <<matches, markets, bets, betSelections, currentBetID, req,
                 nreq, pre, lastPass, passCalls, ev>>

\* resolveBet after updateUserBalance: the status is stored
ResolveBet_Store ==
  /\ Running("RB2")
  /\ LET j == Head(queue) IN
     /\ bets' = IF j.betId \in DOMAIN bets
                THEN [bets EXCEPT ![j.betId].status = j.status]
                ELSE bets
     /\ queue' = Tail(queue) \o Resume(j.ret)
  /\ UNCHANGED <<users, matches, markets, betSelections, currentBetID, req,
                 nreq, histVars, ev>>

(***************************************************************************)
(* POST /api/bets                                                          *)
(***************************************************************************)
\* MemStorage.createBet: no await, so it runs whole inside the caller
createBet(bs, insertBet) ==
  bs @@ (currentBetID :>
           [userId |-> insertBet.userId, stake |-> insertBet.stake,
            totalOdds |-> insertBet.totalOdds,
            potentialWin |-> insertBet.potentialWin,
            status |-> IF insertBet.status = "" THEN "PENDING"
                       ELSE insertBet.status])

\* the selections createBet appends, in the order of the request body, each
\* with the odds of its market as the handler read them
NewSelections(marketIds) ==
  [i \in 1..Len(marketIds) |->
     [betId |-> currentBetID, marketId |-> marketIds[i],
      odds |-> markets[marketIds[i]].odds]]

\* the handler up to its await of getUser(1)
PlaceBetRequest(selections, stake, totalOdds, potentialWin, status) ==
  /\ CanDispatch
  /\ currentBetID <= MaxBets
  /\ Dispatch
  /\ req' = [NoReq EXCEPT !.kind = "bet", !.selections = selections,
               !.stake = stake, !.totalOdds = totalOdds,
               !.potentialWin = potentialWin,
               !.status = status, !.id = DemoUser,
               !.found = DemoUser \in DOMAIN users,
               !.balance = IF DemoUser \in DOMAIN users
                           THEN users[DemoUser].balance ELSE 0]
  /\ queue' = <<RouteJob("PB1")>>
  /\ UNCHANGED <<storeVars, lastPass, passCalls, creditWrites, ev>>

\* mutation of InsufficientBalance: no pre-check
InsufficientBalance_mut(balance, stake) == FALSE

\* the pre-check of the place-bet route
InsufficientBalance(balance, stake) == balance < stake

\* after getUser: the balance pre-check, then getMarket of the first
\* selection
PlaceBet_CheckBalance ==
  /\ Running("PB1")
  /\ IF ~req.found
     THEN /\ req' = [req EXCEPT !.response = 404]
          /\ queue' = Tail(queue)
     ELSE IF InsufficientBalance(req.balance, req.stake)
     THEN /\ req' = [req EXCEPT !.response = 400]
          /\ queue' = Tail(queue)
     ELSE /\ req' = [req EXCEPT !.i = 1,
                       !.marketFound = req.selections[1] \in DOMAIN markets]
          /\ queue' = Tail(queue) \o <<RouteJob("PB2")>>
  /\ UNCHANGED <<storeVars, nreq, histVars, ev>>

\* after getMarket of selection i: 400 for a missing market, getMarket of
\* the next selection, or createBet after the last one
PlaceBet_AfterGetMarket ==
  /\ Running("PB2")
  /\ IF ~req.marketFound
     THEN /\ req' = [req EXCEPT !.response = 400]
          /\ queue' = Tail(queue)
          /\ UNCHANGED <<bets, betSelections, currentBetID, passCalls,
                         creditWrites>>
     ELSE IF req.i < Len(req.selections)
     THEN /\ req' = [req EXCEPT !.i = req.i + 1,
                       !.marketFound =
                          req.selections[req.i + 1] \in DOMAIN markets]
          /\ queue' = Tail(queue) \o <<RouteJob("PB2")>>
          /\ UNCHANGED <<bets, betSelections, currentBetID, passCalls,
                         creditWrites>>
     ELSE /\ bets' = createBet(bets, [userId |-> req.id, stake |-> req.stake,
                                      totalOdds |-> req.totalOdds,
                                      potentialWin |-> req.potentialWin,
                                      status |-> req.status])
          /\ betSelections' = betSelections \o NewSelections(req.selections)
          /\ currentBetID' = currentBetID + 1
          /\ passCalls' = passCalls @@ (currentBetID :> 0)
          /\ creditWrites' = creditWrites @@ (currentBetID :> 0)
          /\ queue' = Tail(queue) \o <<RouteJob("PB3")>>
          /\ UNCHANGED req
  /\ UNCHANGED <<users, matches, markets, nreq, pre, lastPass, ev>>

\* after createBet: updateUserBalance with the balance read at the start,
\* up to its await of getUser
PlaceBet_Debit ==
  /\ Running("PB3")
  /\ queue' = Tail(queue) \o
       <<Job("UB1", 0, "", req.id, req.id \in DOMAIN users,
             req.balance - req.stake, "PB4", "none")>>
  /\ UNCHANGED <<storeVars, req, nreq, histVars, ev>>

\* after updateUserBalance: 201
PlaceBet_Respond ==
  /\ Running("PB4")
  /\ req' = [req EXCEPT !.response = 201]
  /\ queue' = Tail(queue)
  /\ UNCHANGED <<storeVars, nreq, histVars, ev>>

(***************************************************************************)
(* PATCH /api/bets/:id/resolve and POST /api/bets/:id/resolve (the same    *)
(* handler registered twice)                                               *)
(***************************************************************************)
\* the handler up to its await of resolveBet
ResolveRequest(id, status) ==
  /\ CanDispatch
  /\ Dispatch
  /\ req' = [NoReq EXCEPT !.kind = "resolve", !.id = id, !.status = status]
  /\ LET r == resolveBet(bets, users, id, status, "RR1")
     IN /\ bets' = r.bets
        /\ queue' = r.jobs
  /\ UNCHANGED <<users, matches, markets, betSelections, currentBetID,
                 lastPass, passCalls, creditWrites, ev>>

\* after resolveBet: the response
ResolveRoute_Respond ==
  /\ Running("RR1")
  /\ req' = [req EXCEPT !.response = 200]
  /\ queue' = Tail(queue)
  /\ UNCHANGED <<storeVars, nreq, histVars, ev>>

(***************************************************************************)
(* DELETE /api/api/bets/:id (the route is registered as "/api/bets/:id" on *)
(* the router mounted at /api)                                             *)
(***************************************************************************)
\* MemStorage.deleteBet: the bet leaves the bets map, nothing else changes
deleteBet(bs, id) == [b \in DOMAIN bs \ {id} |-> bs[b]]

\* the handler up to its await of deleteBet, which has no await of its own
DeleteBetRequest(id) ==
  /\ CanDispatch
  /\ Dispatch
  /\ req' = [NoReq EXCEPT !.kind = "delete", !.id = id]
  /\ bets' = deleteBet(bets, id)
  /\ queue' = <<RouteJob("DB1")>>
  /\ UNCHANGED <<users, matches, markets, betSelections, currentBetID,
                 lastPass, passCalls, creditWrites, ev>>

\* after deleteBet returned true: the response
DeleteRoute_Respond ==
  /\ Running("DB1")
  /\ req' = [req EXCEPT !.response = 200]
  /\ queue' = Tail(queue)
  /\ UNCHANGED <<storeVars, nreq, histVars, ev>>

(***************************************************************************)
(* Specification                                                           *)
(***************************************************************************)
Next ==
  \/ \E id \in MatchIds, status \in ScoreStatuses, score \in ScoreLines,
        htHomeScore \in HalfTimeGoals, htAwayScore \in HalfTimeGoals :
       ScoreRequest(id, status, score[1], score[2], htHomeScore, htAwayScore)
  \/ UpdateMatchStatus_Store
  \/ UpdateMatchStatus_Return
  \/ ScoreRoute_AfterUpdate
  \/ ScoreRoute_Respond
  \/ \E id \in MatchIds, status \in MatchStatuses : MatchRequest(id, status)
  \/ MatchRoute_Respond
  \/ ResolveBet_AfterGetUser
  \/ UpdateUserBalance_Store
  \/ ResolveBet_Store
  \/ \E selections \in SlipInputs, stake \in Stakes,
        totalOdds \in TotalOddsInputs, potentialWin \in PotentialWins,
        status \in PlacedStatuses :
       PlaceBetRequest(selections, stake, totalOdds, potentialWin, status)
  \/ PlaceBet_CheckBalance
  \/ PlaceBet_AfterGetMarket
  \/ PlaceBet_Debit
  \/ PlaceBet_Respond
  \/ \E id \in 1..MaxBets, status \in ResolveStatuses :
       ResolveRequest(id, status)
  \/ ResolveRoute_Respond
  \/ \E id \in 1..MaxBets : DeleteBetRequest(id)
  \/ DeleteRoute_Respond

Spec == Init /\ [][Next]_vars

(***************************************************************************)
(* The same program started from the store in which the default user has   *)
(* already placed one bet, a single on market 1, and no result has been    *)
(* reported yet: the requests that follow can finish the match, change the *)
(* bet through the resolve endpoints and finish the match again.           *)
(***************************************************************************)
RefinishInit ==
  /\ users = (DemoUser :> [balance |-> DefaultBalance - 10])
  /\ matches = [m \in MatchIds |-> InitMatch]
  /\ markets = InitMarkets
  /\ bets = (1 :> [userId |-> DemoUser, stake |-> 10, totalOdds |-> 2,
                   potentialWin |-> 20, status |-> "PENDING"])
  /\ betSelections = <<[betId |-> 1, marketId |-> 1, odds |-> 2]>>
  /\ currentBetID = 2
  /\ queue = <<>>
  /\ req = NoReq
  /\ nreq = 0
  /\ pre = [users |-> users, bets |-> bets, selections |-> betSelections,
            topup |-> 0]
  /\ lastPass = NoPass
  /\ passCalls = (1 :> 0)
  /\ creditWrites = (1 :> 0)
  /\ ev = EvIdle

RefinishSpec == RefinishInit /\ [][Next]_vars

(***************************************************************************)
(* The program started with one PENDING single of the default user on      *)
(* market 1 of match 1, that market being of one of the half-time or       *)
(* halves types; the requests report full-time results of match 1 with the *)
(* half-time fields left out, given as 0, or given as 1-0.                 *)
(***************************************************************************)
HalfTimeTypes ==
  {"HT_1", "HT_X", "HT_2", "HT_OVER_0_5", "HT_UNDER_0_5", "HT_OVER_1_5",
   "HT_UNDER_1_5", "HT_BTTS_YES", "HT_BTTS_NO", "WIN_BOTH_HALVES_1",
   "WIN_BOTH_HALVES_2", "WIN_EITHER_HALF_1", "WIN_EITHER_HALF_2"}

HalfTimeInit ==
  /\ users = (DemoUser :> [balance |-> DefaultBalance - 10])
  /\ matches = [m \in MatchIds |-> InitMatch]
  /\ \E t \in HalfTimeTypes :
       markets = (1 :> [matchId |-> 1, type |-> t, odds |-> 2,
                        isLocked |-> FALSE])
  /\ bets = (1 :> [userId |-> DemoUser, stake |-> 10, totalOdds |-> 2,
                   potentialWin |-> 20, status |-> "PENDING"])
  /\ betSelections = <<[betId |-> 1, marketId |-> 1, odds |-> 2]>>
  /\ currentBetID = 2
  /\ queue = <<>>
  /\ req = NoReq
  /\ nreq = 0
  /\ pre = [users |-> users, bets |-> bets, selections |-> betSelections,
            topup |-> 0]
  /\ lastPass = NoPass
  /\ passCalls = (1 :> 0)
  /\ creditWrites = (1 :> 0)
  /\ ev = EvIdle

\* full-time results and half-time fields of the request bodies
HalfTimeScoreLines == {<<1, 0>>, <<0, 1>>, <<1, 1>>}
HalfTimeBodies == {<<Undefined, Undefined>>, <<0, 0>>, <<1, 0>>}

HalfTimeNext ==
  \/ \E line \in HalfTimeScoreLines, ht \in HalfTimeBodies :
       ScoreRequest(1, "FINISHED", line[1], line[2], ht[1], ht[2])
  \/ UpdateMatchStatus_Store
  \/ UpdateMatchStatus_Return
  \/ ScoreRoute_AfterUpdate
  \/ ScoreRoute_Respond
  \/ ResolveBet_AfterGetUser
  \/ UpdateUserBalance_Store
  \/ ResolveBet_Store

HalfTimeSpec == HalfTimeInit /\ [][HalfTimeNext]_vars

(***************************************************************************)
(* Placements of slips that hold the same markets of match 1 in different  *)
(* orders, followed by results of match 1.                                 *)
(***************************************************************************)
OrderSlips ==
  {<<1, 2>>, <<2, 1>>, <<5, 1>>, <<1, 5>>, <<2, 6>>, <<6, 2>>,
   <<2, 1, 5>>, <<5, 2, 1>>}
OrderScoreLines == {<<0, 0>>, <<1, 0>>, <<1, 1>>}
OrderScoreStatuses == {"", "FINISHED"}

OrderNext ==
  \/ \E selections \in OrderSlips, stake \in Stakes,
        totalOdds \in TotalOddsInputs, potentialWin \in PotentialWins,
        status \in PlacedStatuses :
       PlaceBetRequest(selections, stake, totalOdds, potentialWin, status)
  \/ PlaceBet_CheckBalance
  \/ PlaceBet_AfterGetMarket
  \/ PlaceBet_Debit
  \/ PlaceBet_Respond
  \/ \E status \in OrderScoreStatuses, score \in OrderScoreLines,
        htHomeScore \in HalfTimeGoals, htAwayScore \in HalfTimeGoals :
       ScoreRequest(1, status, score[1], score[2], htHomeScore, htAwayScore)
  \/ UpdateMatchStatus_Store
  \/ UpdateMatchStatus_Return
  \/ ScoreRoute_AfterUpdate
  \/ ScoreRoute_Respond
  \/ ResolveBet_AfterGetUser
  \/ UpdateUserBalance_Store
  \/ ResolveBet_Store

OrderSpec == Init /\ [][OrderNext]_vars

(***************************************************************************)
(* The event loop: a promise job that has been queued is run.  The         *)
(* specification below starts from the store in which the default user has *)
(* placed two bets on match 1, a single on market 1 and a double on         *)
(* markets 2 and 1; it serves results of match 1 and deletions of bets,    *)
(* and states that the job at the head of the queue is eventually run.     *)
(***************************************************************************)
FairInit ==
  /\ users = (DemoUser :> [balance |-> DefaultBalance - 20])
  /\ matches = [m \in MatchIds |-> InitMatch]
  /\ markets = InitMarkets
  /\ bets = (1 :> [userId |-> DemoUser, stake |-> 10, totalOdds |-> 2,
                   potentialWin |-> 20, status |-> "PENDING"]) @@
            (2 :> [userId |-> DemoUser, stake |-> 10, totalOdds |-> 4,
                   potentialWin |-> 40, status |-> "PENDING"])
  /\ betSelections = <<[betId |-> 1, marketId |-> 1, odds |-> 2],
                       [betId |-> 2, marketId |-> 2, odds |-> 2],
                       [betId |-> 2, marketId |-> 1, odds |-> 2]>>
  /\ currentBetID = 3
  /\ queue = <<>>
  /\ req = NoReq
  /\ nreq = 0
  /\ pre = [users |-> users, bets |-> bets, selections |-> betSelections,
            topup |-> 0]
  /\ lastPass = NoPass
  /\ passCalls = (1 :> 0) @@ (2 :> 0)
  /\ creditWrites = (1 :> 0) @@ (2 :> 0)
  /\ ev = EvIdle

FairScoreLines == {<<1, 0>>, <<0, 0>>}
FairScoreStatuses == {"FINISHED"}

\* one promise job taken from the queue and run
JobStep ==
  \/ UpdateMatchStatus_Store
  \/ UpdateMatchStatus_Return
  \/ ScoreRoute_AfterUpdate
  \/ ScoreRoute_Respond
  \/ ResolveBet_AfterGetUser
  \/ UpdateUserBalance_Store
  \/ ResolveBet_Store
  \/ DeleteRoute_Respond

FairNext ==
  \/ \E status \in FairScoreStatuses, score \in FairScoreLines,
        htHomeScore \in HalfTimeGoals, htAwayScore \in HalfTimeGoals :
       ScoreRequest(1, status, score[1], score[2], htHomeScore, htAwayScore)
  \/ \E id \in 1..MaxBets : DeleteBetRequest(id)
  \/ JobStep

FairSpec == FairInit /\ [][FairNext]_vars /\ WF_vars(JobStep)

(***************************************************************************)
(* POST /api/balance/add                                                   *)
(***************************************************************************)
\* the handler up to its await of getUser(1): 400 for an amount that is not
\* positive; the job carries user.balance + amount of the user it read
TopUpRequest(amount) ==
  /\ CanDispatch
  /\ Dispatch
  /\ IF amount <= 0
     THEN /\ req' = [NoReq EXCEPT !.kind = "topup", !.amount = amount,
                                  !.response = 400]
          /\ queue' = <<>>
     ELSE /\ req' = [NoReq EXCEPT !.kind = "topup", !.amount = amount]
          /\ queue' = <<Job("TU1", 0, "", DemoUser, DemoUser \in DOMAIN users,
                            (IF DemoUser \in DOMAIN users
                             THEN users[DemoUser].balance ELSE 0) + amount,
                            "none", "none")>>
  /\ UNCHANGED <<storeVars, lastPass, passCalls, creditWrites, ev>>

\* after getUser: 404, or updateUserBalance up to its await of getUser
TopUp_AfterGetUser ==
  /\ Running("TU1")
  /\ LET j == Head(queue) IN
     IF j.found
     THEN /\ queue' = Tail(queue) \o
                <<Job("UB1", 0, "", j.userId, j.userId \in DOMAIN users,
                      j.balance, "TU2", "none")>>
          /\ UNCHANGED req
     ELSE /\ queue' = Tail(queue)
          /\ req' = IF req.kind = "topup" THEN [req EXCEPT !.response = 404]
                    ELSE req
  /\ UNCHANGED <<storeVars, nreq, histVars, ev>>

\* after updateUserBalance: the response
TopUp_Respond ==
  /\ Running("TU2")
  /\ req' = IF req.kind = "topup" THEN [req EXCEPT !.response = 200] ELSE req
  /\ queue' = Tail(queue)
  /\ UNCHANGED <<storeVars, nreq, histVars, ev>>

(***************************************************************************)
(* Two requests whose handlers start in the same turn of the event loop    *)
(* (requests pipelined on one connection): the handler of the second runs  *)
(* up to its first await before any promise job of the first has run, and  *)
(* from then on the jobs of both are run in the order they were queued.    *)
(* Here the first is a placement and the second a top-up.                  *)
(***************************************************************************)
\* the top-up handler up to its await of getUser(1), started while the
\* placement waits for its own getUser(1); pre.topup records the amount
TopUpPipelined(amount) ==
  /\ req.kind = "bet"
  /\ queue = <<RouteJob("PB1")>>
  /\ pre.topup = 0
  /\ nreq < MaxRequests
  /\ nreq' = nreq + 1
  /\ IF amount <= 0
     THEN UNCHANGED <<queue, pre>>
     ELSE /\ queue' = queue \o
                <<Job("TU1", 0, "", DemoUser, DemoUser \in DOMAIN users,
                      (IF DemoUser \in DOMAIN users
                       THEN users[DemoUser].balance ELSE 0) + amount,
                      "none", "none")>>
          /\ pre' = [pre EXCEPT !.topup = amount]
  /\ UNCHANGED <<storeVars, req, lastPass, passCalls, creditWrites, ev>>

RaceBodies == {<<<<1>>, 10, 2, 20>>, <<<<1, 4>>, 10, 4, 40>>,
               <<<<9>>, 10, 2, 20>>, <<<<1>>, 20000, 2, 40000>>}
RaceAmounts == {50, 0}

RaceNext ==
  \/ \E body \in RaceBodies, status \in PlacedStatuses :
       PlaceBetRequest(body[1], body[2], body[3], body[4], status)
  \/ PlaceBet_CheckBalance
  \/ PlaceBet_AfterGetMarket
  \/ PlaceBet_Debit
  \/ PlaceBet_Respond
  \/ \E amount \in RaceAmounts : TopUpRequest(amount)
  \/ \E amount \in RaceAmounts : TopUpPipelined(amount)
  \/ TopUp_AfterGetUser
  \/ TopUp_Respond
  \/ UpdateUserBalance_Store

RaceSpec == Init /\ [][RaceNext]_vars

(***************************************************************************)
(* DELETE /api/matches/:id                                                 *)
(***************************************************************************)
\* the handler up to its await of deleteMatch, which runs up to its await of
\* getMatch
DeleteMatchRequest(id) ==
  /\ CanDispatch
  /\ Dispatch
  /\ req' = [NoReq EXCEPT !.kind = "deleteMatch", !.id = id,
                          !.found = id \in DOMAIN matches]
  /\ queue' = <<RouteJob("DM1")>>
  /\ UNCHANGED <<storeVars, lastPass, passCalls, creditWrites, ev>>

\* deleteMatch after getMatch: false for a missing match, else
\* getMarketsByMatchId, which filters the markets before it is awaited
DeleteMatch_AfterGetMatch ==
  /\ Running("DM1")
  /\ IF ~req.found
     THEN /\ queue' = Tail(queue) \o <<RouteJob("DM3")>>
          /\ UNCHANGED req
     ELSE /\ req' = [req EXCEPT !.snapMarkets =
                       {m \in DOMAIN markets : markets[m].matchId = req.id}]
          /\ queue' = Tail(queue) \o <<RouteJob("DM2")>>
  /\ UNCHANGED <<storeVars, nreq, histVars, ev>>

\* deleteMatch after getMarketsByMatchId: the markets of the match and the
\* match leave their maps; bets and selections stay
DeleteMatch_Delete ==
  /\ Running("DM2")
  /\ markets' = [m \in DOMAIN markets \ req.snapMarkets |-> markets[m]]
  /\ matches' = [m \in DOMAIN matches \ {req.id} |-> matches[m]]
  /\ queue' = Tail(queue) \o <<RouteJob("DM3")>>
  /\ UNCHANGED <<users, bets, betSelections, currentBetID, req, nreq,
                 histVars, ev>>

\* the handler after deleteMatch: 404 or 200
DeleteMatchRoute_Respond ==
  /\ Running("DM3")
  /\ req' = [req EXCEPT !.response = IF req.found THEN 200 ELSE 404]
  /\ queue' = Tail(queue)
  /\ UNCHANGED <<storeVars, nreq, histVars, ev>>

(***************************************************************************)
(* The ledger: the program started from the store of RefinishInit and      *)
(* driven through placement, top-up, the resolve endpoints, the score      *)
(* route of match 1 and the deletion of match 2, with request bodies that  *)
(* the routes must refuse among those they accept.                         *)
(***************************************************************************)
\* bodies of POST /api/bets as <<selections, stake, totalOdds,
\* potentialWin>>: the slip of the client for a single and for an
\* accumulator across the matches, a slip naming a market without record, a
\* stake above the balance, and a negative potentialWin
LedgerBodies ==
  {<<<<1>>, 10, 2, 20>>,
   <<<<1, 4>>, 10, 4, 40>>,
   <<<<1, 9>>, 10, 4, 40>>,
   <<<<1>>, 20000, 2, 40000>>,
   <<<<1>>, 10, 2, -20000>>}
TopUpAmounts == {50}
LedgerScoreStatuses == {"", "FINISHED"}
LedgerScoreLines == {<<1, 0>>, <<0, 0>>}
LedgerResolveStatuses == {"WON", "LOST"}

LedgerNext ==
  \/ \E body \in LedgerBodies, status \in PlacedStatuses :
       PlaceBetRequest(body[1], body[2], body[3], body[4], status)
  \/ PlaceBet_CheckBalance
  \/ PlaceBet_AfterGetMarket
  \/ PlaceBet_Debit
  \/ PlaceBet_Respond
  \/ \E amount \in TopUpAmounts : TopUpRequest(amount)
  \/ TopUp_AfterGetUser
  \/ TopUp_Respond
  \/ \E status \in LedgerScoreStatuses, score \in LedgerScoreLines,
        htHomeScore \in HalfTimeGoals, htAwayScore \in HalfTimeGoals :
       ScoreRequest(1, status, score[1], score[2], htHomeScore, htAwayScore)
  \/ UpdateMatchStatus_Store
  \/ UpdateMatchStatus_Return
  \/ ScoreRoute_AfterUpdate
  \/ ScoreRoute_Respond
  \/ ResolveBet_AfterGetUser
  \/ UpdateUserBalance_Store
  \/ ResolveBet_Store
  \/ \E id \in 1..MaxBets, status \in LedgerResolveStatuses :
       ResolveRequest(id, status)
  \/ ResolveRoute_Respond
  \/ DeleteMatchRequest(2)
  \/ DeleteMatch_AfterGetMatch
  \/ DeleteMatch_Delete
  \/ DeleteMatchRoute_Respond

LedgerSpec == RefinishInit /\ [][LedgerNext]_vars

(***************************************************************************)
(* Properties of the evaluator (specification EvalSpec)                    *)
(***************************************************************************)
\* the rule table on integer scores: "total > 2.5" is "total >= 3"
TabulatedWin(t, home, away, htHome, htAway) ==
  CASE t = "1" -> home > away
    [] t = "X" -> home = away
    [] t = "2" -> away > home
    [] t = "OVER_1_5" -> home + away >= 2
    [] t = "UNDER_1_5" -> home + away <= 1
    [] t = "OVER_2_5" -> home + away >= 3
    [] t = "UNDER_2_5" -> home + away <= 2
    [] t = "OVER_3_5" -> home + away >= 4
    [] t = "UNDER_3_5" -> home + away <= 3
    [] t = "BTTS_YES" -> home >= 1 /\ away >= 1
    [] t = "BTTS_NO" -> ~(home >= 1 /\ away >= 1)
    [] t = "DNB_1" -> home > away
    [] t = "DNB_2" -> away > home
    [] t = "DC_1X" -> ~(away > home)
    [] t = "DC_12" -> home > away \/ away > home
    [] t = "DC_X2" -> ~(home > away)
    [] t = "HT_1" -> htHome > htAway
    [] t = "HT_X" -> htHome = htAway
    [] t = "HT_2" -> htAway > htHome
    [] t = "HT_OVER_0_5" -> htHome + htAway >= 1
    [] t = "HT_UNDER_0_5" -> htHome + htAway = 0
    [] t = "HT_OVER_1_5" -> htHome + htAway >= 2
    [] t = "HT_UNDER_1_5" -> htHome + htAway <= 1
    [] t = "HT_BTTS_YES" -> htHome >= 1 /\ htAway >= 1
    [] t = "HT_BTTS_NO" -> ~(htHome >= 1 /\ htAway >= 1)
    [] t = "HANDICAP_1_MINUS_1" -> home - away >= 2
    [] t = "HANDICAP_1_MINUS_2" -> home - away >= 3
    [] t = "HANDICAP_2_MINUS_1" -> away - home >= 2
    [] t = "HANDICAP_2_MINUS_2" -> away - home >= 3

HalvesTypes ==
  {"WIN_BOTH_HALVES_1", "WIN_BOTH_HALVES_2", "WIN_EITHER_HALF_1",
   "WIN_EITHER_HALF_2"}

TabulatedTypes == RuledTypes \ HalvesTypes

\* C1: for every market type of the rule table other than the halves
\* markets, and every score tuple, the server's and the client's isBetWinner
\* return true exactly when the tabulated WIN condition holds.
C1_EvaluatorMatchesTable ==
  (ev.done /\ ev.marketType \in TabulatedTypes) =>
    LET expected == TabulatedWin(ev.marketType, ev.homeScore, ev.awayScore,
                                 ev.htHomeScore, ev.htAwayScore)
    IN ev.win = expected /\ ev.clientWin = expected

\* a full-time total of exactly 3 evaluated for OVER_2_5, with a half-time
\* score that alone would not decide it
C1_Witness ==
  /\ ev.done
  /\ ev.marketType = "OVER_2_5"
  /\ ev.homeScore + ev.awayScore = 3
  /\ ev.htHomeScore + ev.htAwayScore = 1
  /\ ev.win

\* C2: isBetPush is true if and only if the market is DNB_1 or DNB_2 and the
\* full-time score is a draw; it is false for every other market type at
\* every score.
C2_PushOnlyDrawNoBet ==
  ev.done =>
    LET expected == ev.marketType \in {"DNB_1", "DNB_2"}
                    /\ ev.homeScore = ev.awayScore
    IN ev.push = expected /\ ev.clientPush = expected

\* HANDICAP_1_MINUS_1 at 2-1 lands on the handicap line: no push, no win
C2_Witness ==
  /\ ev.done
  /\ ev.marketType = "HANDICAP_1_MINUS_1"
  /\ ev.homeScore = 2 /\ ev.awayScore = 1
  /\ ~ev.push /\ ~ev.win

\* C4: the halves markets compare the half-time score and the second-half
\* score (full time minus half time) per side: BOTH needs the side ahead in
\* each half, EITHER in at least one; half-time 1-0 with full-time 2-1
\* loses WIN_BOTH_HALVES_1 and wins WIN_EITHER_HALF_1.
C4_HalvesBySubtraction ==
  (ev.done /\ ev.marketType \in HalvesTypes) =>
    LET first == ev.htHomeScore - ev.htAwayScore
        second == (ev.homeScore - ev.htHomeScore)
                  - (ev.awayScore - ev.htAwayScore)
        expected ==
          CASE ev.marketType = "WIN_BOTH_HALVES_1" -> first > 0 /\ second > 0
            [] ev.marketType = "WIN_BOTH_HALVES_2" -> first < 0 /\ second < 0
            [] ev.marketType = "WIN_EITHER_HALF_1" -> first > 0 \/ second > 0
            [] ev.marketType = "WIN_EITHER_HALF_2" -> first < 0 \/ second < 0
        pinned ==
          (ev.htHomeScore = 1 /\ ev.htAwayScore = 0 /\ ev.homeScore = 2
           /\ ev.awayScore = 1) =>
            /\ ev.marketType = "WIN_BOTH_HALVES_1" => ~ev.win
            /\ ev.marketType = "WIN_EITHER_HALF_1" => ev.win
    IN ev.win = expected /\ ev.clientWin = expected /\ pinned

\* half-time 1-0, full-time 2-1, WIN_BOTH_HALVES_1 evaluated: a lost leg
C4_Witness ==
  /\ ev.done
  /\ ev.marketType = "WIN_BOTH_HALVES_1"
  /\ ev.htHomeScore = 1 /\ ev.htAwayScore = 0
  /\ ev.homeScore = 2 /\ ev.awayScore = 1
  /\ ~ev.win

(***************************************************************************)
(* Properties of settlement (specification Spec)                           *)
(***************************************************************************)
SettledStatuses == {"WON", "LOST", "PUSH"}

\* the latest pass ran its loop and belongs to the request being served, so
\* the store it read is the store of this state but for its own effects
PassOfThisRequest == lastPass.ran /\ lastPass.req = nreq

\* the legs of a bet on the match of the latest pass, as indices of
\* betSelections
LegsOnMatch(b) ==
  {i \in 1..Len(betSelections) :
     /\ betSelections[i].betId = b
     /\ betSelections[i].marketId \in DOMAIN markets
     /\ markets[betSelections[i].marketId].matchId = lastPass.matchId}

LegType(i) == markets[betSelections[i].marketId].type

LegPushes(i) ==
  isBetPush(LegType(i), lastPass.match.homeScore, lastPass.match.awayScore)

LegWins(i) ==
  isBetWinner(LegType(i), lastPass.match.homeScore, lastPass.match.awayScore,
              OrZero(lastPass.match.htHomeScore),
              OrZero(lastPass.match.htAwayScore))

\* no selection on the match is a non-push LOSE
AllWon(b) == \A i \in LegsOnMatch(b) : LegPushes(i) \/ LegWins(i)
\* some selection on the match pushes
AnyPush(b) == \E i \in LegsOnMatch(b) : LegPushes(i)

RuleStatus(b) ==
  IF AllWon(b) THEN (IF AnyPush(b) THEN "PUSH" ELSE "WON") ELSE "LOST"

\* C3: a market tag outside the rule table (FOOBAR, CORRECT_SCORE, CUSTOM)
\* never wins and never pushes, whatever the scores, and a PENDING bet that
\* holds a selection with such a tag on the finished match is handed LOST by
\* the pass and is stored LOST from then on in the request.  (The first
\* conjunct does not read the state: it is evaluated once, in the initial
\* state, over every score tuple within MaxGoals.)
C3_UnknownMarketLoses ==
  /\ nreq = 0 =>
       \A t \in (MarketType \ RuledTypes) \cup UndeclaredTypes,
          h \in Goals, a \in Goals, hh \in Goals, ha \in Goals :
         /\ ~isBetWinner(t, h, a, hh, ha)
         /\ ~isBetPush(t, h, a)
         /\ ~isBetWinnerClient(t, h, a, hh, ha)
         /\ ~isBetPushClient(t, h, a)
  /\ PassOfThisRequest =>
       \A b \in DOMAIN lastPass.before :
         (/\ lastPass.before[b] = "PENDING"
          /\ \E i \in LegsOnMatch(b) : LegType(i) \notin RuledTypes)
         => /\ lastPass.calls[b] = "LOST"
            /\ bets[b].status = "LOST"

\* a single on the CUSTOM market of match 1, settled by a home win
C3_Witness ==
  /\ PassOfThisRequest /\ Idle
  /\ lastPass.match.homeScore > lastPass.match.awayScore
  /\ \E b \in DOMAIN lastPass.before :
       /\ lastPass.before[b] = "PENDING"
       /\ LegsOnMatch(b) # {}
       /\ \A i \in LegsOnMatch(b) : LegType(i) = "CUSTOM"
       /\ bets[b].status = "LOST"

\* C5: a pass hands every bet it finds PENDING exactly one status: PUSH if
\* no selection on the match is a non-push LOSE and some selection pushes,
\* WON if none loses and none pushes, LOST otherwise; that status is the
\* stored one when the request ends.
C5_AggregationRule ==
  PassOfThisRequest =>
    \A b \in DOMAIN lastPass.before :
      lastPass.before[b] = "PENDING" =>
        /\ lastPass.calls[b] = RuleStatus(b)
        /\ lastPass.calls[b] \in SettledStatuses
        /\ Idle => bets[b].status = RuleStatus(b)

\* one pass over a draw that hands PUSH to one bet, LOST to another, both
\* stored
C5_Witness ==
  /\ PassOfThisRequest /\ Idle
  /\ \E b1, b2 \in DOMAIN lastPass.before :
       /\ lastPass.calls[b1] = "PUSH" /\ bets[b1].status = "PUSH"
       /\ lastPass.calls[b2] = "LOST" /\ bets[b2].status = "LOST"
       /\ Cardinality(LegsOnMatch(b2)) = 2

\* C6: when the score route finishes a match and the only PENDING bet is a
\* single on a market of that match that wins, then at the end of the
\* request the bet is WON and its owner's balance has grown by exactly
\* potentialWin, with or without "FINISHED" in the body.
C6_SingleWinCreditedOnce ==
  (/\ req.kind = "score" /\ Idle /\ req.found
   /\ StatusArg(req.status) = "FINISHED")
  => \A b \in DOMAIN pre.bets :
       (/\ \A c \in DOMAIN pre.bets : pre.bets[c].status = "PENDING" <=> c = b
        /\ Len(SelectionsOf(betSelections, b)) = 1
        /\ LET marketId == SelectionsOf(betSelections, b)[1].marketId
           IN /\ marketId \in DOMAIN markets
              /\ markets[marketId].matchId = req.id
              /\ isBetWinner(markets[marketId].type, req.homeScore,
                             req.awayScore, req.htHomeScore, req.htAwayScore))
       => /\ bets[b].status = "WON"
          /\ users[bets[b].userId].balance =
               pre.users[bets[b].userId].balance + bets[b].potentialWin

\* C7: a bet that is WON, LOST or PUSH keeps its status in every later step,
\* whichever operation takes the step (a pass, or resolveBet called by the
\* resolve endpoints with any status).
C7_SettledStatusFinal ==
  [][\A b \in DOMAIN bets \cap DOMAIN bets' :
       bets[b].status \in SettledStatuses => bets'[b].status = bets[b].status]_vars

\* C8: a pass calls resolveBet for no bet that is already WON, LOST or PUSH,
\* and until the request ends such a bet keeps its status and no balance
\* write is made for it.
C8_PassSkipsSettled ==
  PassOfThisRequest =>
    \A b \in DOMAIN lastPass.before :
      lastPass.before[b] \in SettledStatuses =>
        /\ lastPass.calls[b] = "none"
        /\ bets[b].status = lastPass.before[b]
        /\ creditWrites[b] = lastPass.credits[b]

\* a pass over a result under which a bet already WON would now lose
C8_Witness ==
  /\ PassOfThisRequest /\ Idle
  /\ \E b \in DOMAIN lastPass.before :
       /\ lastPass.before[b] = "WON"
       /\ LegsOnMatch(b) # {}
       /\ RuleStatus(b) = "LOST"
       /\ creditWrites[b] = 1

\* the legs of a bet whose market still exists, as indices of betSelections
LegsOf(b) ==
  {i \in 1..Len(betSelections) :
     /\ betSelections[i].betId = b
     /\ betSelections[i].marketId \in DOMAIN markets}

LegMatch(i) == matches[markets[betSelections[i].marketId].matchId]

\* C9: a bet to which a settlement pass gave its status (the resolve
\* endpoints are left aside) has no selection on a match that is not
\* FINISHED, and if the status is WON every leg wins or pushes against the
\* final score of its own match.
C9_SettledOnlyWhenAllFinished ==
  PassOfThisRequest =>
    \A b \in DOMAIN lastPass.before :
      (lastPass.calls[b] # "none" /\ bets[b].status \in SettledStatuses) =>
        /\ \A i \in LegsOf(b) : LegMatch(i).status = "FINISHED"
        /\ bets[b].status = "WON" =>
             \A i \in LegsOf(b) :
               \/ isBetPush(LegType(i), LegMatch(i).homeScore,
                            LegMatch(i).awayScore)
               \/ isBetWinner(LegType(i), LegMatch(i).homeScore,
                              LegMatch(i).awayScore,
                              OrZero(LegMatch(i).htHomeScore),
                              OrZero(LegMatch(i).htAwayScore))

\* C10: settlement passes call resolveBet at most once for a bet.
C10_OnePassFinalizes ==
  \A b \in DOMAIN passCalls : passCalls[b] <= 1

\* the bets a pass handed WON
HandedWon == {b \in DOMAIN lastPass.calls : lastPass.calls[b] = "WON"}

\* the sum of potentialWin over a set of bets
RECURSIVE SumPotentialWin(_)
SumPotentialWin(S) ==
  IF S = {} THEN 0
  ELSE LET b == CHOOSE x \in S : TRUE
       IN bets[b].potentialWin + SumPotentialWin(S \ {b})

\* C11: when the only pass of a request hands WON to two or more PENDING
\* bets of one user, then once every step of the request has run the user's
\* balance is its value before the pass plus the sum of the potentialWin of
\* those bets.
C11_NoCreditLost ==
  (/\ PassOfThisRequest /\ Idle /\ lastPass.n = 1
   /\ Cardinality(HandedWon) >= 2)
  => \A u \in DOMAIN users :
       (\A b \in HandedWon : bets[b].userId = u) =>
         users[u].balance = pre.users[u].balance + SumPotentialWin(HandedWon)

\* the promise of updateMatchStatus has resolved: its last job has run
UpdateResolved == \A i \in 1..Len(queue) : queue[i].k \notin {"UMS1", "UMS2"}

\* a continuation of resolveBet or of its updateUserBalance is still queued
SettlementPending ==
  \E i \in 1..Len(queue) :
    \/ queue[i].k \in {"RB1", "RB2"}
    \/ queue[i].k = "UB1" /\ queue[i].then = "RB2"

\* C12: once the promise of updateMatchStatus(id, "FINISHED", ...) has
\* resolved, every bet its pass decided has that status stored, every WON
\* credit of the pass is written, and no settlement write is left to run.
C12_SettledBeforeResponse ==
  (PassOfThisRequest /\ lastPass.n = 1 /\ UpdateResolved)
  => /\ ~SettlementPending
     /\ \A b \in DOMAIN lastPass.calls :
          lastPass.calls[b] # "none" =>
            /\ bets[b].status = lastPass.calls[b]
            /\ lastPass.calls[b] = "WON" =>
                 creditWrites[b] = lastPass.credits[b] + 1

\* the request sets to FINISHED a match that was already FINISHED, and
\* updateMatchStatus has stored it
Refinished ==
  /\ req.kind \in {"score", "match"} /\ req.found
  /\ StatusArg(req.status) = "FINISHED"
  /\ req.snap.status = "FINISHED"
  /\ \A i \in 1..Len(queue) : queue[i].k # "UMS1"
  /\ matches[req.id].homeScore # Null /\ matches[req.id].awayScore # Null

\* C13: setting an already FINISHED match to FINISHED again runs the
\* settlement pass again: resolveBet is called for every bet that is PENDING
\* at that moment, whatever was paid for it before, and a bet handed WON has
\* one more balance write when the request ends.  (That a bet paid by the
\* first finish is credited a second time this way is the reachable state
\* C13_Witness.)
C13_RefinishSettlesAgain ==
  Refinished =>
    /\ PassOfThisRequest
    /\ \A b \in DOMAIN pre.bets :
         pre.bets[b].status = "PENDING" =>
           /\ passCalls[b] >= 1
           /\ lastPass.n = 1 => lastPass.calls[b] \in SettledStatuses
           /\ (Idle /\ lastPass.calls[b] = "WON") =>
                creditWrites[b] >= lastPass.credits[b] + 1

\* a bet paid as WON by the first finish of its match (one pass, one
\* credit), put back to PENDING through the resolve endpoint, and credited
\* again by the pass of the second finish
C13_Witness ==
  /\ Refinished /\ Idle /\ lastPass.n = 1
  /\ \E b \in DOMAIN pre.bets :
       /\ LegsOnMatch(b) # {}
       /\ passCalls[b] = 2 /\ creditWrites[b] = 2
       /\ lastPass.credits[b] = 1
       /\ bets[b].status = "WON"
       /\ users[bets[b].userId].balance =
            DefaultBalance - bets[b].stake + 2 * bets[b].potentialWin

\* a bet has a selection on match m
HasLegOn(b, m) ==
  \E i \in LegsOf(b) : markets[betSelections[i].marketId].matchId = m

\* C14: a request that calls updateMatchStatus with UPCOMING or LIVE, or with
\* FINISHED for a match that is then stored without a score, changes no bet
\* and no balance and leaves no settlement step to run; and
\* resolveBetsForMatch called in any state for a match that does not exist,
\* is not FINISHED or has a null home or away score calls resolveBet for no
\* bet and changes no bet.
C14_SettlesOnlyFinishedWithResult ==
  /\ (/\ req.kind \in {"score", "match"}
      /\ \/ StatusArg(req.status) # "FINISHED"
         \/ ~req.found
         \/ matches[req.id].homeScore = Null
         \/ matches[req.id].awayScore = Null)
     => /\ bets = pre.bets
        /\ users = pre.users
        /\ ~SettlementPending
  /\ \A m \in MatchIds \cup {0} :
       (\/ m \notin DOMAIN matches
        \/ matches[m].status # "FINISHED"
        \/ matches[m].homeScore = Null
        \/ matches[m].awayScore = Null)
       => LET r == resolveBetsForMatch(matches, bets, users, betSelections,
                                       markets, m)
          IN /\ r.bets = bets
             /\ r.jobs = <<>>
             /\ \A b \in DOMAIN r.calls : r.calls[b] = "none"

\* a match set to FINISHED by PATCH /api/matches/:id while it has no score,
\* with a PENDING bet on it that stays PENDING
C14_Witness ==
  /\ req.kind = "match" /\ req.status = "FINISHED" /\ req.found /\ Idle
  /\ req.response = 200
  /\ matches[req.id].status = "FINISHED"
  /\ matches[req.id].homeScore = Null
  /\ \E b \in DOMAIN bets :
       HasLegOn(b, req.id) /\ bets[b].status = "PENDING"

\* the latest pass read a draw
PassDraw == lastPass.match.homeScore = lastPass.match.awayScore

\* a draw-no-bet leg on a drawn match
DrawNoBetPush(i) == LegType(i) \in {"DNB_1", "DNB_2"} /\ PassDraw

\* C15: a PENDING bet whose selections on the finished match are all DNB_1
\* or DNB_2 is handed PUSH and stored PUSH when the match is drawn; a bet is
\* handed LOST only if some selection on the match loses without pushing;
\* and a bet with a pushing selection whose other selections on the match
\* all win is handed PUSH and stored PUSH.
C15_DrawNoBetPushes ==
  PassOfThisRequest =>
    \A b \in DOMAIN lastPass.before :
      lastPass.before[b] = "PENDING" =>
        /\ (/\ LegsOnMatch(b) # {} /\ PassDraw
            /\ \A i \in LegsOnMatch(b) : LegType(i) \in {"DNB_1", "DNB_2"})
           => lastPass.calls[b] = "PUSH" /\ bets[b].status = "PUSH"
        /\ lastPass.calls[b] = "LOST" =>
             \E i \in LegsOnMatch(b) : ~DrawNoBetPush(i) /\ ~LegWins(i)
        /\ (/\ \E i \in LegsOnMatch(b) : DrawNoBetPush(i)
            /\ \A i \in LegsOnMatch(b) : DrawNoBetPush(i) \/ LegWins(i))
           => lastPass.calls[b] = "PUSH" /\ bets[b].status = "PUSH"

\* a draw, with one bet that is a single on DNB_1 and another that holds
\* DNB_1 and a winning UNDER_1_5: both PUSH, the balance as before the pass
C15_Witness ==
  /\ PassOfThisRequest /\ Idle /\ PassDraw
  /\ users = pre.users
  /\ \E b1, b2 \in DOMAIN lastPass.before :
       /\ Cardinality(LegsOnMatch(b1)) = 1
       /\ \A i \in LegsOnMatch(b1) : LegType(i) = "DNB_1"
       /\ bets[b1].status = "PUSH" /\ lastPass.calls[b1] = "PUSH"
       /\ \E i \in LegsOnMatch(b2) : LegType(i) = "UNDER_1_5" /\ LegWins(i)
       /\ \E i \in LegsOnMatch(b2) : DrawNoBetPush(i)
       /\ bets[b2].status = "PUSH" /\ lastPass.calls[b2] = "PUSH"

\* C16: a PENDING bet with a selection on the finished match that loses
\* without pushing is handed LOST whatever its other selections are, is
\* stored LOST, and no balance write is made for it; in particular a bet
\* with OVER_1_5 and 1 on a match that ends 0-0.
C16_LosingLegLoses ==
  PassOfThisRequest =>
    \A b \in DOMAIN lastPass.before :
      (/\ lastPass.before[b] = "PENDING"
       /\ \/ \E i \in LegsOnMatch(b) : ~DrawNoBetPush(i) /\ ~LegWins(i)
          \/ /\ lastPass.match.homeScore = 0 /\ lastPass.match.awayScore = 0
             /\ \E i \in LegsOnMatch(b) : LegType(i) = "OVER_1_5"
             /\ \E i \in LegsOnMatch(b) : LegType(i) = "1")
      => /\ lastPass.calls[b] = "LOST"
         /\ bets[b].status = "LOST"
         /\ creditWrites[b] = lastPass.credits[b]

\* a 0-0 with one bet on OVER_1_5 and 1 and another on DNB_1 (which
\* pushes) then 1 (which loses): both LOST, the balance as before the pass
C16_Witness ==
  /\ PassOfThisRequest /\ Idle
  /\ lastPass.match.homeScore = 0 /\ lastPass.match.awayScore = 0
  /\ users = pre.users
  /\ \E b1, b2 \in DOMAIN lastPass.before :
       /\ \E i \in LegsOnMatch(b1) : LegType(i) = "OVER_1_5"
       /\ \E i \in LegsOnMatch(b1) : LegType(i) = "1"
       /\ bets[b1].status = "LOST" /\ lastPass.calls[b1] = "LOST"
       /\ \E i, j \in LegsOnMatch(b2) :
            i < j /\ DrawNoBetPush(i) /\ LegType(j) = "1"
       /\ bets[b2].status = "LOST" /\ lastPass.calls[b2] = "LOST"

RECURSIVE OddsProduct(_)
OddsProduct(odds) ==
  IF odds = <<>> THEN 1 ELSE Head(odds) * OddsProduct(Tail(odds))

\* calculateTotalOdds of the client utilities
calculateTotalOdds(odds) == IF odds = <<>> THEN 0 ELSE OddsProduct(odds)

\* the odds stored with the selections of a bet
OddsOf(b) ==
  LET sels == SelectionsOf(betSelections, b)
  IN [i \in 1..Len(sels) |-> sels[i].odds]

\* calculatePotentialWin of the client utilities
calculatePotentialWin(stake, totalOdds) == stake * totalOdds

\* C18: every stored bet has a positive stake, a totalOdds equal to the
\* product of the odds of its selections, and a potentialWin equal to
\* stake x totalOdds, whatever body the place-bet route accepted.
C18_TotalsMatchSelections ==
  \A b \in DOMAIN bets :
    /\ bets[b].stake > 0
    /\ bets[b].totalOdds = calculateTotalOdds(OddsOf(b))
    /\ bets[b].potentialWin =
         calculatePotentialWin(bets[b].stake, bets[b].totalOdds)

\* the slip of the request holds a selection on a locked market
SlipOnLockedMarket ==
  \E i \in 1..Len(req.selections) :
    /\ req.selections[i] \in DOMAIN markets
    /\ markets[req.selections[i]].isLocked

\* C19: a place-bet request with a selection on a market whose isLocked is
\* true is rejected: it is not answered 201, no bet is stored and no stake
\* is taken.
C19_LockedMarketRejected ==
  (req.kind = "bet" /\ SlipOnLockedMarket) =>
    /\ req.response # 201
    /\ bets = pre.bets
    /\ users = pre.users

\* C20: once deleteBet(id) has returned true (the bet existed), no stored
\* selection has betId = id.
C20_DeleteRemovesSelections ==
  (req.kind = "delete" /\ req.id \in DOMAIN pre.bets) =>
    \A i \in 1..Len(betSelections) : betSelections[i].betId # req.id

(***************************************************************************)
(* Properties of placement and of the balance (specification LedgerSpec)   *)
(***************************************************************************)
\* the slip of the request names a market id that has no record
SlipOnMissingMarket ==
  \E i \in 1..Len(req.selections) : req.selections[i] \notin DOMAIN markets

\* the stake of the request exceeds the balance the user had at dispatch
StakeExceedsBalance ==
  DemoUser \in DOMAIN pre.users /\ req.stake > pre.users[DemoUser].balance

\* C21: a place-bet request whose stake exceeds the user's balance, or one
\* of whose selections names a market id without record, is answered with an
\* error and stores no bet, no selection and no balance; a request answered
\* 201 has neither defect, has stored one bet with the body's values and one
\* selection per market of the slip, in order, and has debited exactly the
\* stake.
C21_PlacementAllOrNothing ==
  req.kind = "bet" =>
    /\ (StakeExceedsBalance \/ SlipOnMissingMarket) =>
         /\ bets = pre.bets
         /\ betSelections = pre.selections
         /\ users = pre.users
         /\ req.response # 201
         /\ Idle => req.response = 400
    /\ (Idle /\ req.response = 201) =>
         LET id == currentBetID - 1 IN
         /\ ~StakeExceedsBalance /\ ~SlipOnMissingMarket
         /\ id \notin DOMAIN pre.bets
         /\ bets = pre.bets @@
              (id :> [userId |-> DemoUser, stake |-> req.stake,
                      totalOdds |-> req.totalOdds,
                      potentialWin |-> req.potentialWin,
                      status |-> "PENDING"])
         /\ Len(betSelections) = Len(pre.selections) + Len(req.selections)
         /\ SubSeq(betSelections, 1, Len(pre.selections)) = pre.selections
         /\ \A i \in 1..Len(req.selections) :
              LET sel == betSelections[Len(pre.selections) + i]
              IN sel.betId = id /\ sel.marketId = req.selections[i]
         /\ users = [pre.users EXCEPT ![DemoUser].balance = @ - req.stake]

\* a stake above the balance, which a top-up has raised before, refused
\* with 400 on a slip whose market exists: nothing stored, nothing debited
C21_Witness ==
  /\ req.kind = "bet" /\ Idle /\ req.response = 400
  /\ StakeExceedsBalance /\ ~SlipOnMissingMarket
  /\ users[DemoUser].balance = DefaultBalance - 10 + 50
  /\ bets = pre.bets /\ betSelections = pre.selections

\* C22: every user's balance is >= 0 in every state, whatever placements,
\* settlement passes, resolutions through the endpoints and top-ups have
\* been served.
C22_BalanceNonNegative ==
  \A u \in DOMAIN users : users[u].balance >= 0

(***************************************************************************)
(* Further properties of settlement (specification Spec)                   *)
(***************************************************************************)
\* C23: a stored match has a non-null home or away score only if its status
\* is FINISHED or LIVE.
C23_ScoresOnlyLiveOrFinished ==
  \A m \in DOMAIN matches :
    (matches[m].homeScore # Null \/ matches[m].awayScore # Null)
    => matches[m].status \in {"FINISHED", "LIVE"}

(***************************************************************************)
(* Missing records (specification LedgerSpec)                              *)
(***************************************************************************)
\* a bet has a selection whose market has no record
HasMissingMarket(b) ==
  \E i \in 1..Len(betSelections) :
    /\ betSelections[i].betId = b
    /\ betSelections[i].marketId \notin DOMAIN markets

\* a users map without any record
NoUsers == [u \in {} |-> [balance |-> 0]]

\* C24: a pass calls resolveBet for every bet it finds PENDING, also when
\* another bet or the bet itself has a selection whose market has no record;
\* such a selection is skipped, so the bet gets the status its remaining
\* selections on the match give it, stored when the request ends; and
\* resolveBet(WON) for a bet whose owner has no user record stores WON and
\* queues no balance write (stated on resolveBet and its continuation
\* applied to the bets of the state and an empty users map).
C24_MissingRecordNotFatal ==
  /\ PassOfThisRequest =>
       \A b \in DOMAIN lastPass.before :
         lastPass.before[b] = "PENDING" =>
           /\ lastPass.calls[b] \in SettledStatuses
           /\ HasMissingMarket(b) => lastPass.calls[b] = RuleStatus(b)
           /\ Idle => bets[b].status = lastPass.calls[b]
  /\ \A b \in DOMAIN bets :
       LET r == resolveBet(bets, NoUsers, b, "WON", "none")
           a == AfterGetUser(r.bets, NoUsers, r.jobs[1])
       IN /\ r.bets = bets
          /\ Len(r.jobs) = 1 /\ r.jobs[1].k = "RB1" /\ ~r.jobs[1].found
          /\ a.bets = [bets EXCEPT ![b].status = "WON"]
          /\ a.jobs = <<>>

\* match 2 and its markets deleted, then match 1 finished 1-0: the bet on
\* markets 1 and 4 (the latter without record) and the single on market 1
\* are both WON
C24_Witness ==
  /\ PassOfThisRequest /\ Idle
  /\ \E b1, b2 \in DOMAIN lastPass.before :
       /\ b1 # b2
       /\ lastPass.before[b1] = "PENDING" /\ lastPass.before[b2] = "PENDING"
       /\ HasMissingMarket(b1) /\ LegsOnMatch(b1) # {}
       /\ ~HasMissingMarket(b2)
       /\ bets[b1].status = "WON" /\ bets[b2].status = "WON"
       /\ creditWrites[b1] >= 1 /\ creditWrites[b2] >= 1

(***************************************************************************)
(* The two copies of the evaluator (specification EvalSpec)                *)
(***************************************************************************)
\* C25: for every market type string, declared or not, and every score
\* tuple, the isBetWinner and isBetPush nested in resolveBetsForMatch return
\* what the client's exported isBetWinner and isBetPush return.
C25_ServerAgreesWithClient ==
  ev.done => /\ ev.win = ev.clientWin
             /\ ev.push = ev.clientPush

\* DNB_2 at a 1-1 draw with the away side ahead at half time: both copies
\* say push and no win
C25_Witness ==
  /\ ev.done
  /\ ev.marketType = "DNB_2"
  /\ ev.homeScore = 1 /\ ev.awayScore = 1
  /\ ev.htHomeScore = 0 /\ ev.htAwayScore = 1
  /\ ev.push /\ ev.clientPush /\ ~ev.win /\ ~ev.clientWin

(***************************************************************************)
(* Absent half-time scores (specification HalfTimeSpec)                    *)
(***************************************************************************)
\* the status a single on a market of type t gets at full time home-away
\* when the half-time score counts as 0-0
NullHalfTimeStatus(t, home, away) ==
  CASE t \in {"HT_X", "HT_UNDER_0_5", "HT_UNDER_1_5", "HT_BTTS_NO"} -> "WON"
    [] t \in {"HT_1", "HT_2", "HT_OVER_0_5", "HT_OVER_1_5", "HT_BTTS_YES"}
         -> "LOST"
    [] t \in {"WIN_BOTH_HALVES_1", "WIN_BOTH_HALVES_2"} -> "LOST"
    [] t = "WIN_EITHER_HALF_1" -> IF home > away THEN "WON" ELSE "LOST"
    [] t = "WIN_EITHER_HALF_2" -> IF away > home THEN "WON" ELSE "LOST"

\* C26: the score endpoint stores null for a half-time field that is left
\* out or 0, and a pass over a match whose half-time scores are null
\* settles as if the half had ended 0-0: a single on HT_X, HT_UNDER_0_5,
\* HT_UNDER_1_5 or HT_BTTS_NO is WON, one on HT_1, HT_2, HT_OVER_0_5,
\* HT_OVER_1_5 or HT_BTTS_YES is LOST, WIN_BOTH_HALVES is LOST and
\* WIN_EITHER_HALF is decided by the full-time score alone.
C26_NullHalfTimeIsNilNil ==
  /\ (req.kind = "score" /\ req.found /\ ~Running("UMS1")) =>
       /\ req.htHomeScore \in {0, Undefined}
            => matches[req.id].htHomeScore = Null
       /\ req.htAwayScore \in {0, Undefined}
            => matches[req.id].htAwayScore = Null
  /\ (/\ PassOfThisRequest
      /\ lastPass.match.htHomeScore = Null
      /\ lastPass.match.htAwayScore = Null) =>
       \A b \in DOMAIN lastPass.before :
         (lastPass.before[b] = "PENDING" /\ LegsOnMatch(b) # {}) =>
           /\ lastPass.calls[b] =
                NullHalfTimeStatus(markets[1].type, lastPass.match.homeScore,
                                   lastPass.match.awayScore)
           /\ Idle => bets[b].status = lastPass.calls[b]

\* a body with htHomeScore 0 and htAwayScore 0 at full time 1-0: the single
\* on WIN_EITHER_HALF_1 is WON and paid
C26_Witness ==
  /\ PassOfThisRequest /\ Idle
  /\ markets[1].type = "WIN_EITHER_HALF_1"
  /\ req.htHomeScore = 0 /\ req.htAwayScore = 0
  /\ matches[1].htHomeScore = Null /\ matches[1].htAwayScore = Null
  /\ matches[1].homeScore = 1 /\ matches[1].awayScore = 0
  /\ pre.bets[1].status = "PENDING"
  /\ bets[1].status = "WON"
  /\ creditWrites[1] >= 1

(***************************************************************************)
(* Scope of a pass (specification Spec) and order of the selections        *)
(* (specification OrderSpec)                                               *)
(***************************************************************************)
\* C27: a pass over a match leaves alone every bet it finds PENDING that
\* has no selection on a market of that match: the bet stays PENDING and no
\* balance write is made for it.
C27_UnrelatedBetsUntouched ==
  PassOfThisRequest =>
    \A b \in DOMAIN lastPass.before :
      (lastPass.before[b] = "PENDING" /\ LegsOnMatch(b) = {}) =>
        /\ lastPass.calls[b] \notin SettledStatuses
        /\ bets[b].status = "PENDING"
        /\ creditWrites[b] = lastPass.credits[b]

\* the selections of bet b taken in the order p, a permutation of their
\* positions
Reordered(b, p) ==
  LET own == SelectionsOf(betSelections, b)
  IN [i \in 1..Len(own) |-> own[p[i]]]

\* C28: the status a pass hands to a bet it finds PENDING is the status the
\* selection loop gives for every order of the bet's selections; a bet with
\* a losing leg and a pushing leg is LOST in both orders.
C28_OrderIndependent ==
  PassOfThisRequest =>
    \A b \in DOMAIN lastPass.before :
      lastPass.before[b] = "PENDING" =>
        /\ \A p \in Permutations(1..Len(SelectionsOf(betSelections, b))) :
             BetOutcome(Reordered(b, p), markets, lastPass.matchId,
                        lastPass.match, b) = lastPass.calls[b]
        /\ (/\ \E i \in LegsOnMatch(b) : LegPushes(i)
            /\ \E i \in LegsOnMatch(b) : ~LegPushes(i) /\ ~LegWins(i))
           => lastPass.calls[b] = "LOST"

\* a draw of match 1 with one bet on 1 then DNB_1 and another on DNB_1 then
\* 1: the losing leg comes first in one, after the pushing leg in the
\* other, and both bets are LOST
C28_Witness ==
  /\ PassOfThisRequest /\ Idle
  /\ lastPass.match.homeScore = lastPass.match.awayScore
  /\ \E b1, b2 \in DOMAIN lastPass.before :
       /\ lastPass.before[b1] = "PENDING" /\ lastPass.before[b2] = "PENDING"
       /\ \E i, j \in LegsOnMatch(b1) :
            i < j /\ LegType(i) = "1" /\ LegType(j) = "DNB_1"
       /\ \E i, j \in LegsOnMatch(b2) :
            i < j /\ LegType(i) = "DNB_1" /\ LegType(j) = "1"
       /\ lastPass.calls[b1] = "LOST" /\ lastPass.calls[b2] = "LOST"
       /\ bets[b1].status = "LOST" /\ bets[b2].status = "LOST"

(***************************************************************************)
(* Settlement finishes (specification FairSpec)                            *)
(***************************************************************************)
\* the latest pass of the request being served found bet b PENDING with a
\* selection on its match
Settling(b) ==
  /\ PassOfThisRequest
  /\ b \in DOMAIN lastPass.before
  /\ lastPass.before[b] = "PENDING"
  /\ LegsOnMatch(b) # {}

\* C29: once updateMatchStatus has stored FINISHED with both scores and its
\* pass has run, every bet the pass found PENDING with a selection on the
\* match is eventually stored WON, LOST or PUSH unless it is deleted, and
\* for every bet handed WON a balance write beyond those counted at the
\* pass is eventually made, given that queued promise jobs are run.  (The
\* count a pass records never decreases from one pass to the next, so more
\* writes than the latest pass counted is more than this pass counted.)
C29_SettlementFinalizes ==
  \A b \in 1..MaxBets :
    /\ Settling(b)
         ~> (b \notin DOMAIN bets \/ bets[b].status \in SettledStatuses)
    /\ (Settling(b) /\ lastPass.calls[b] = "WON")
         ~> /\ b \in DOMAIN creditWrites
            /\ b \in DOMAIN lastPass.credits
            /\ creditWrites[b] > lastPass.credits[b]

\* a pass has just handed WON to a PENDING bet on its match: the status is
\* not stored yet, the credit not yet written, and the promise job of
\* resolveBet waits in the queue
C29_Witness ==
  /\ ~Idle
  /\ \E b \in 1..MaxBets :
       /\ Settling(b)
       /\ lastPass.calls[b] = "WON"
       /\ bets[b].status = "PENDING"
       /\ creditWrites[b] = lastPass.credits[b]
       /\ \E i \in 1..Len(queue) : queue[i].k = "RB1" /\ queue[i].betId = b

(***************************************************************************)
(* Balance writes of overlapping requests (specification RaceSpec)         *)
(***************************************************************************)
\* C30: when a placement has been answered 201, the balance is the balance
\* at the start of the placement minus the stake plus the amount of the
\* top-up that was served while the placement was in progress (0 when
\* there was none).
C30_NoUpdateLost ==
  (req.kind = "bet" /\ req.response = 201 /\ Idle) =>
    users[DemoUser].balance =
      pre.users[DemoUser].balance - req.stake + pre.topup

=============================================================================
